---- MODULE Spec2Model ----
(***************************************************************************)
(* A model of the pflow dispatch engine: the publish/subscribe bus         *)
(* (source/Queue.ts) and the workflow layer on top of it (source/Flow.ts). *)
(*                                                                         *)
(* JavaScript runs one call stack to completion, then microtasks, then     *)
(* timers.  The model keeps that machine explicit: `stack` is the native   *)
(* call stack (one frame per running handler, Flow.next call and Queue.pub *)
(* call), `microtasks` the FIFO of promise continuations, `timers` the     *)
(* handlers suspended at an await.  Only the top frame steps; the calling  *)
(* script acts only when the stack is empty.                               *)
(***************************************************************************)
EXTENDS Integers, Sequences, FiniteSets, TLC

\* ------------------------------------------------------------------ bounds
\* Calls the driving script makes to the bus (sub, pub) in one run.
MaxCalls == 3
\* Task definitions (Flow.task calls) in one run.
MaxTasks == 3
\* Flow.start calls in one run.
MaxStarts == 1
\* Flow.start calls in one run of a workflow that is started again.
MaxRestarts == 2
\* Native call-stack depth the model follows.
MaxDepth == 16
\* Calls to the configuration setters in one run in which they are counted.
MaxSets == 3

\* ------------------------------------------------------------------ values
\* A JavaScript value of a context field or of a state counter.
Num(n) == [t |-> "num", n |-> n]
UndefV == [t |-> "undefined", n |-> 0]
NaNV == [t |-> "NaN", n |-> 0]
TrueV == [t |-> "bool", n |-> 1]

\* a + b on JavaScript numbers: undefined or NaN operands give NaN.
Add(a, b) == IF a.t = "num" /\ b.t = "num" THEN Num(a.n + b.n) ELSE NaNV

\* a * b likewise.
Mul(a, b) == IF a.t = "num" /\ b.t = "num" THEN Num(a.n * b.n) ELSE NaNV

\* An object with an identity: a partial record, a context, a payload.
Obj(id, value, processed) == [id |-> id, value |-> value, processed |-> processed]
NoObj == Obj(0, UndefV, UndefV)

\* ----------------------------------------------------------------- strings
\* Strings are sequences of characters, so that building a qualified name is
\* a real concatenation.
WfUnknown == <<"u">>
WfW == <<"w">>
WfV == <<"v">>
La == <<"a">>
Lb == <<"b">>
Lc == <<"c">>

\* A topic that names a property every object inherits.
TopicToString == <<"toString">>

\* `[${this.workflow.name}] ${args.name}`
QualifiedName(wf, local) == <<"[">> \o wf \o <<"]", " ">> \o local

\* ------------------------------------------------------- handler programs
\* The code under test calls user functions: task handlers, startup hooks and
\* bus callbacks.  Each is a short program over these instructions.
Instr(op, name, shape, exprs, cb) ==
    [op |-> op, name |-> name, shape |-> shape, exprs |-> exprs, cb |-> cb]
IAcc == Instr("acc", <<>>, "", <<>>, "")
IThrow == Instr("throw", <<>>, "", <<>>, "")
IAwait == Instr("await", <<>>, "", <<>>, "")
INext(local, shape, exprs) == Instr("next", local, shape, exprs, "")
IPub(topic, expr) == Instr("pub", topic, "", <<expr>>, "")
ISub(topic, cb) == Instr("sub", topic, "", <<>>, cb)
\* const seen = state.count
IRead == Instr("read", <<>>, "", <<>>, "")
\* state.count = seen + 1
IWrite == Instr("write", <<>>, "", <<>>, "")
\* state.attempts++
IInc == Instr("inc", <<>>, "", <<>>, "")
\* if (state.attempts >= bound) next(name, expr) else next(self, selfExpr)
IRetry(self, selfExpr, bound, name, expr) ==
    [op |-> "retry", name |-> name, shape |-> "single", exprs |-> <<expr>>, cb |-> "",
     self |-> self, selfExprs |-> <<selfExpr>>, bound |-> bound]

\* Task handlers as the tests and examples write them (tests/Flow.test.ts).
TaskBody(h) ==
    CASE h = "double" -> <<INext(Lb, "single", <<"double">>)>>
      [] h = "plus10" -> <<INext(Lc, "single", <<"plus10">>)>>
      [] h = "acc" -> <<IAcc>>
      [] h = "fail" -> <<IThrow>>
      [] h = "fan" -> <<INext(Lb, "batch", <<"lit1", "lit2">>), INext(Lc, "none", <<>>)>>
      [] h = "route" -> <<INext(Lc, "single", <<"ctx">>)>>
      [] h = "slow" -> <<IAwait, INext(Lc, "single", <<"spread">>)>>
      [] h = "slowFail" -> <<IAwait, IThrow>>
      [] h = "countSlowly" -> <<IRead, IAwait, IWrite>>
      [] h = "retryTwice" -> <<IInc, IRetry(La, "ctx", 2, Lb, "spread")>>
      [] h = "retryThrice" -> <<IInc, IRetry(La, "inc1", 3, Lb, "spread")>>
      [] OTHER -> <<>>

\* Startup hooks.
HookBody(h) ==
    CASE h = "hookOne" -> <<INext(La, "single", <<"lit5">>)>>
      [] h = "hookBatch" -> <<INext(La, "batch", <<"lit1", "lit2", "lit3">>)>>
      [] h = "hookTwo" -> <<INext(La, "single", <<"lit1">>), INext(Lb, "single", <<"lit2">>)>>
      [] h = "hookBare" -> <<INext(La, "none", <<>>)>>
      [] h = "hookEmpty" -> <<INext(La, "batch", <<>>)>>
      [] h = "hookThrow" -> <<INext(La, "single", <<"lit1">>), IThrow,
                              INext(Lb, "single", <<"lit2">>)>>
      [] h = "hookSlow" -> <<IAwait, INext(La, "single", <<"lit1">>)>>
      [] h = "hookSlowThrow" -> <<INext(La, "single", <<"lit1">>), IAwait, IThrow>>
      [] OTHER -> <<>>

\* Callbacks handed to Queue.sub directly.
CallbackBody(h) ==
    CASE h = "cbThrow" -> <<IThrow>>
      [] h = "cbPub" -> <<IPub(Lb, "ctx")>>
      [] h = "cbAsyncFail" -> <<IAwait, IThrow>>
      [] h = "cbAsync" -> <<IAwait>>
      [] h = "cbSub" -> <<ISub(Lb, "cbRec")>>
      [] OTHER -> <<>>

Body(h) ==
    CASE h \in {"double", "plus10", "acc", "fail", "fan", "route", "slow", "slowFail",
                "retryTwice", "retryThrice", "countSlowly"} -> TaskBody(h)
      [] h \in {"hookNone", "hookOne", "hookBatch", "hookTwo", "hookBare", "hookEmpty",
                 "hookThrow", "hookSlow", "hookSlowThrow"} -> HookBody(h)
      [] OTHER -> CallbackBody(h)

\* Task handlers and hooks are async functions (FlowTaskHandlerType returns a
\* Promise); a bus callback may be a plain function.
IsAsync(h) == h \notin {"cbRec", "cbThrow", "cbPub", "cbSub"}

\* The partial record an argument expression of a handler evaluates to.
Eval(e, ctx, id) ==
    CASE e = "lit1" -> Obj(id, Num(1), UndefV)
      [] e = "lit2" -> Obj(id, Num(2), UndefV)
      [] e = "lit3" -> Obj(id, Num(3), UndefV)
      [] e = "lit5" -> Obj(id, Num(5), UndefV)
      [] e = "double" -> Obj(id, Mul(ctx.value, Num(2)), TrueV)
      [] e = "plus10" -> Obj(id, Add(ctx.value, Num(10)), UndefV)
      [] e = "spread" -> Obj(id, ctx.value, TrueV)
      [] e = "inc1" -> Obj(id, Add(ctx.value, Num(1)), ctx.processed)
      [] OTHER -> ctx

\* Passing ctx itself makes no new object.
IsFresh(e) == e # "ctx"

RECURSIVE EvalExprs(_, _, _)
EvalExprs(exprs, ctx, base) ==
    IF Len(exprs) = 0 THEN <<>>
    ELSE <<Eval(Head(exprs), ctx, base + 1)>>
         \o EvalExprs(Tail(exprs), ctx, IF IsFresh(Head(exprs)) THEN base + 1 ELSE base)

FreshCount(exprs) == Cardinality({i \in DOMAIN exprs : IsFresh(exprs[i])})

\* ------------------------------------------------------------------- state
VARIABLES
    subscribes,  \* Queue.subscribes: topic -> sequence of callbacks
    queue,       \* Queue.queue: the pending messages, front first
    workflow,    \* Flow.workflow: name, contextConstructor, tasks, startup
    taskStates,  \* the taskState record each Flow.task call created, by index
    stack,       \* the native call stack, innermost frame last
    microtasks,  \* promise continuations waiting to run, oldest first
    timers,      \* async handlers suspended at an await
    log,         \* what has been observed so far (history)
    nobj,        \* identities handed out to objects so far
    calls,       \* calls the driving script has made to sub and pub, or to
                 \* the configuration setters where these are counted
    starts       \* calls the driving script has made to start

vars == <<subscribes, queue, workflow, taskStates, stack, microtasks, timers, log,
          nobj, calls, starts>>

\* One entry of the history.  id: the index of the entry that opened the
\* call this entry belongs to; par: the id of the call that made this call.
Ev(e, id, par, topic, h, obj, sid, val, n) ==
    [e |-> e, id |-> id, par |-> par, topic |-> topic, h |-> h, obj |-> obj,
     sid |-> sid, val |-> val, n |-> n, items |-> <<>>, name |-> <<>>, wf |-> <<>>]

\* One stack frame: a running user function ("handler"), a Flow.next call
\* ("next") or a Queue.pub call ("pub").  items holds the entries of a
\* Flow.next call, and the local variables of a user function.
Frame(kind, h, pc, obj, sid, name, owner, items, id, i, n) ==
    [kind |-> kind, h |-> h, pc |-> pc, obj |-> obj, sid |-> sid, name |-> name,
     owner |-> owner, items |-> items, id |-> id, i |-> i, n |-> n]

\* A callback stored in a subscriber list.  A task's wrapped handler closes
\* over the user handler, the task's state record and the qualified name.
Callback(kind, h, sid, name) == [kind |-> kind, h |-> h, sid |-> sid, name |-> name]

\* A continuation waiting in the microtask queue.
Microtask(owner, outcome, id) == [owner |-> owner, outcome |-> outcome, id |-> id]

Front(s) == SubSeq(s, 1, Len(s) - 1)
Last(s) == s[Len(s)]

Init ==
    /\ subscribes = <<>>
    /\ queue = <<>>
    /\ workflow = [contextConstructor |-> "unset", name |-> WfUnknown,
                   tasks |-> <<>>, startup |-> "hookNone"]
    /\ taskStates = <<>>
    /\ stack = <<>>
    /\ microtasks = <<>>
    /\ timers = <<>>
    /\ log = <<>>
    /\ nobj = 0
    /\ calls = 0
    /\ starts = 0

\* ------------------------------------------------------------------ Queue
\* subscribes is a plain object ({}), so reading subscribes[topic] also finds
\* what Object.prototype defines: for such a topic the read yields a function,
\* which is neither undefined nor an array.
ObjectPrototypeKeys == {TopicToString}

\* What this.subscribes[topic] reads.
Lookup(subs, topic) ==
    CASE topic \in DOMAIN subs -> "array"
      [] topic \in ObjectPrototypeKeys -> "inherited"
      [] OTHER -> "undefined"

\* Sub with the callback put first in the list instead of last.
SubPrepend(subs, topic, cb) ==
    [t \in DOMAIN subs \cup {topic} |->
        IF t = topic
        THEN <<cb>> \o (IF topic \in DOMAIN subs THEN subs[topic] ELSE <<>>)
        ELSE subs[t]]

\* Sub with the topic's list started over at every call: the new callback
\* takes the place of the ones subscribed before.
SubReplaces(subs, topic, cb) ==
    [t \in DOMAIN subs \cup {topic} |-> IF t = topic THEN <<cb>> ELSE subs[t]]

\* Queue.sub: create the topic's list if absent, then push the callback.
Sub(subs, topic, cb) ==
    [t \in DOMAIN subs \cup {topic} |->
        IF t = topic
        THEN Append(IF topic \in DOMAIN subs THEN subs[topic] ELSE <<>>, cb)
        ELSE subs[t]]

\* this.queue.unshift({ topic, data })
Unshift(q, topic, data) == <<[topic |-> topic, data |-> data]>> \o q

\* PubCall that skips update() when a dispatch is already under way (a
\* "draining" guard): the call returns at once and the message stays queued.
PubCallNoReentry(stk, lg, topic, data, par) ==
    IF \E d \in DOMAIN stk : stk[d].kind = "pub"
    THEN [stack |-> stk,
          log |-> Append(Append(lg, Ev("pub", Len(lg) + 1, par, topic, "", data, 0, UndefV, 0)),
                         Ev("pubret", Len(lg) + 1, 0, topic, "", NoObj, 0, UndefV, 0))]
    ELSE [stack |-> Append(stk, Frame("pub", "", 1, data, 0, topic, "", <<>>, Len(lg) + 1, 1, 0)),
          log |-> Append(lg, Ev("pub", Len(lg) + 1, par, topic, "", data, 0, UndefV, 0))]

\* PubCall that puts a publish made during a dispatch behind that dispatch:
\* its update() runs once the dispatch under way is over.
PubCallAfterDispatch(stk, lg, topic, data, par) ==
    [stack |-> <<Frame("pub", "", 1, data, 0, topic, "", <<>>, Len(lg) + 1, 1, 0)>> \o stk,
     log |-> Append(lg, Ev("pub", Len(lg) + 1, par, topic, "", data, 0, UndefV, 0))]

\* PubCall that only enqueues: the call returns without running update().
PubCallDeferred(stk, lg, topic, data, par) ==
    [stack |-> stk,
     log |-> Append(Append(lg, Ev("pub", Len(lg) + 1, par, topic, "", data, 0, UndefV, 0)),
                    Ev("pubret", Len(lg) + 1, 0, topic, "", NoObj, 0, UndefV, 0))]

\* Queue.pub called by `par`: the message goes on the queue and the call's
\* frame goes on the stack; the frame's next step is update().
PubCall(stk, lg, topic, data, par) ==
    [stack |-> Append(stk, Frame("pub", "", 1, data, 0, topic, "", <<>>, Len(lg) + 1, 1, 0)),
     log |-> Append(lg, Ev("pub", Len(lg) + 1, par, topic, "", data, 0, UndefV, 0))]

\* ------------------------------------------------------------- exceptions
RECURSIVE Unwind(_, _, _)

\* UpdateCaught without the try/catch: the exception goes on up the stack.
UpdateRethrows(stk, mt, lg) == Unwind(stk, mt, lg)

\* A callback invoked by update() threw synchronously: the try/catch around
\* cb(msg.data) logs it and forEach goes on with the frame `stk` ends with.
UpdateCaught(stk, mt, lg) ==
    [stack |-> stk, microtasks |-> mt,
     log |-> Append(lg, Ev("error", Last(stk).id, 0, Last(stk).name, "", NoObj, 0, UndefV, 0))]

\* AsyncRejected with the failure thrown on to the caller instead.
AsyncPropagates(f, stk, mt, lg) == Unwind(stk, mt, lg)

\* An async function threw: the failure settles its promise and goes no
\* further up the stack; whoever awaits the promise learns of it later.
AsyncRejected(f, stk, mt, lg) ==
    [stack |-> stk, microtasks |-> Append(mt, Microtask(f.owner, "throw", f.id)), log |-> lg]

\* An exception leaves the frame on top of `stk`.
Unwind(stk, mt, lg) ==
    IF Len(stk) = 0
    THEN [stack |-> stk, microtasks |-> mt,
          log |-> Append(lg, Ev("raise", 0, 0, <<>>, "", NoObj, 0, UndefV, 0))]
    ELSE LET f == Last(stk)
             rest == Front(stk)
         IN CASE f.kind = "handler" /\ IsAsync(f.h) ->
                    AsyncRejected(f, rest, mt,
                        Append(lg, Ev("fail", f.id, 0, f.name, f.h, f.obj, f.sid, UndefV, 0)))
              [] f.kind = "handler" /\ ~IsAsync(f.h) ->
                    LET lg2 == Append(lg, Ev("fail", f.id, 0, f.name, f.h, f.obj, f.sid, UndefV, 0))
                    IN IF Len(rest) > 0 /\ Last(rest).kind = "pub"
                       THEN UpdateCaught(rest, mt, lg2)
                       ELSE Unwind(rest, mt, lg2)
              [] f.kind = "next" ->
                    Unwind(rest, mt, Append(lg, Ev("trigthrow", f.id, 0, f.name, "", NoObj, 0, UndefV, 0)))
              [] OTHER ->
                    Unwind(rest, mt, Append(lg, Ev("pubthrow", f.id, 0, f.name, "", NoObj, 0, UndefV, 0)))

\* QueuePop reading the last message without removing it.
QueuePeek(q) == [msg |-> Last(q), rest |-> q]

\* const msg = this.queue.pop()
QueuePop(q) == [msg |-> Last(q), rest |-> Front(q)]

\* StateAtInvoke with the task's state made anew for every message.
StateReinitialised(states, cb) ==
    IF cb.sid > 0 THEN [states EXCEPT ![cb.sid] = Num(0)] ELSE states

\* The task states after a callback is invoked: the wrapped handler closes
\* over the record Flow.task created, so invoking it creates nothing.
StateAtInvoke(states, cb) == states

\* The frame of cb(msg.data).  A task's wrapped handler hands the user
\* handler { ctx: msg, state: taskState, name: taskName, next }.
\* InvokeFrame with update() awaiting every callback inside its try block.
InvokeFrameAllAwaited(cb, data, id) ==
    Frame("handler", cb.h, 1, data, cb.sid, cb.name, "wrapper", <<>>, id, 0, 0)

\* InvokeFrame with the task's handler subscribed as it is, without the
\* wrapper Flow.task puts around it.
InvokeFrameUnwrapped(cb, data, id) ==
    Frame("handler", cb.h, 1, data, cb.sid, cb.name, "bus", <<>>, id, 0, 0)

InvokeFrame(cb, data, id) ==
    Frame("handler", cb.h, 1, data, cb.sid, cb.name,
          IF cb.kind = "task" THEN "wrapper" ELSE "bus", <<>>, id, 0, 0)

\* Subscribers handing out the list of some topic, whatever the message's.
SubscribersOfSomeTopic(subs, topic) == subs[CHOOSE t \in DOMAIN subs : TRUE]

\* this.subscribes[msg.topic], once it is known to be an array.
Subscribers(subs, topic) == subs[topic]

\* StepUpdate keeping a message nobody is subscribed to: it stays in the
\* buffer for a later update().
StepUpdateKeepsUndelivered ==
    /\ Len(stack) > 0
    /\ Last(stack).kind = "pub"
    /\ Last(stack).pc = 1
    /\ LET f == Last(stack)
           ret == Ev("pubret", f.id, 0, f.name, "", NoObj, 0, UndefV, 0)
       IN IF Len(queue) = 0
          THEN /\ stack' = Front(stack)
               /\ log' = Append(log, ret)
               /\ UNCHANGED <<queue, microtasks>>
          ELSE LET p == QueuePop(queue)
               IN /\ Lookup(subscribes, p.msg.topic) # "undefined" => queue' = p.rest
                  /\ CASE Lookup(subscribes, p.msg.topic) = "undefined" ->
                             /\ queue' = queue
                             /\ stack' = Front(stack)
                             /\ log' = Append(log, ret)
                             /\ UNCHANGED microtasks
                       [] Lookup(subscribes, p.msg.topic) = "inherited" ->
                             \* TypeError: ...forEach is not a function
                             LET u == Unwind(stack, microtasks, log)
                             IN /\ stack' = u.stack
                                /\ microtasks' = u.microtasks
                                /\ log' = u.log
                       [] OTHER ->
                             /\ stack' = Append(Front(stack),
                                    [f EXCEPT !.pc = 2, !.name = p.msg.topic, !.obj = p.msg.data,
                                              !.i = 1,
                                              !.n = Len(Subscribers(subscribes, p.msg.topic))])
                             /\ UNCHANGED <<log, microtasks>>
    /\ UNCHANGED <<subscribes, workflow, taskStates, timers, nobj, calls, starts>>

\* update(), first half: pop a message and look up its topic's list.
StepUpdate ==
    /\ Len(stack) > 0
    /\ Last(stack).kind = "pub"
    /\ Last(stack).pc = 1
    /\ LET f == Last(stack)
           ret == Ev("pubret", f.id, 0, f.name, "", NoObj, 0, UndefV, 0)
       IN IF Len(queue) = 0
          THEN /\ stack' = Front(stack)
               /\ log' = Append(log, ret)
               /\ UNCHANGED <<queue, microtasks>>
          ELSE LET p == QueuePop(queue)
               IN /\ queue' = p.rest
                  /\ CASE Lookup(subscribes, p.msg.topic) = "undefined" ->
                             /\ stack' = Front(stack)
                             /\ log' = Append(log, ret)
                             /\ UNCHANGED microtasks
                       [] Lookup(subscribes, p.msg.topic) = "inherited" ->
                             \* TypeError: ...forEach is not a function
                             LET u == Unwind(stack, microtasks, log)
                             IN /\ stack' = u.stack
                                /\ microtasks' = u.microtasks
                                /\ log' = u.log
                       [] OTHER ->
                             /\ stack' = Append(Front(stack),
                                    [f EXCEPT !.pc = 2, !.name = p.msg.topic, !.obj = p.msg.data,
                                              !.i = 1,
                                              !.n = Len(Subscribers(subscribes, p.msg.topic))])
                             /\ UNCHANGED <<log, microtasks>>
    /\ UNCHANGED <<subscribes, workflow, taskStates, timers, nobj, calls, starts>>

\* StepForEach reading the list's length anew at every step, as a loop
\* "for (i = 0; i < list.length; i++)" does: a callback added during the
\* dispatch is visited by it.
StepForEachLive ==
    /\ Len(stack) > 0
    /\ Last(stack).kind = "pub"
    /\ Last(stack).pc = 2
    /\ LET f == Last(stack)
       IN IF f.i > Len(Subscribers(subscribes, f.name))
          THEN /\ stack' = Front(stack)
               /\ log' = Append(log, Ev("pubret", f.id, 0, f.name, "", NoObj, 0, UndefV, 0))
               /\ UNCHANGED taskStates
          ELSE LET cb == Subscribers(subscribes, f.name)[f.i]
                   id == Len(log) + 1
                   fr == InvokeFrame(cb, f.obj, id)
                   sts == StateAtInvoke(taskStates, cb)
               IN /\ Len(stack) < MaxDepth
                  /\ stack' = Append(Append(Front(stack), [f EXCEPT !.i = f.i + 1]), fr)
                  /\ taskStates' = sts
                  /\ log' = Append(log,
                        [Ev("call", id, f.id, f.name, fr.h, fr.obj, fr.sid,
                            IF fr.sid > 0 THEN sts[fr.sid] ELSE UndefV, f.i)
                         EXCEPT !.name = fr.name])
    /\ UNCHANGED <<subscribes, queue, workflow, microtasks, timers, nobj, calls, starts>>

\* update(), second half: forEach over the topic's list, one callback a step.
StepForEach ==
    /\ Len(stack) > 0
    /\ Last(stack).kind = "pub"
    /\ Last(stack).pc = 2
    /\ LET f == Last(stack)
       IN IF f.i > f.n
          THEN /\ stack' = Front(stack)
               /\ log' = Append(log, Ev("pubret", f.id, 0, f.name, "", NoObj, 0, UndefV, 0))
               /\ UNCHANGED taskStates
          ELSE LET cb == Subscribers(subscribes, f.name)[f.i]
                   id == Len(log) + 1
                   fr == InvokeFrame(cb, f.obj, id)
                   sts == StateAtInvoke(taskStates, cb)
               IN /\ Len(stack) < MaxDepth
                  /\ stack' = Append(Append(Front(stack), [f EXCEPT !.i = f.i + 1]), fr)
                  /\ taskStates' = sts
                  /\ log' = Append(log,
                        [Ev("call", id, f.id, f.name, fr.h, fr.obj, fr.sid,
                            IF fr.sid > 0 THEN sts[fr.sid] ELSE UndefV, f.i)
                         EXCEPT !.name = fr.name])
    /\ UNCHANGED <<subscribes, queue, workflow, microtasks, timers, nobj, calls, starts>>

\* ------------------------------------------------------- Flow.next, stepwise
\* NextItems walking the array from its last entry to its first.
NextItemsReversed(shape, params) ==
    CASE shape = "none" -> <<NoObj>>
      [] shape = "single" -> <<params[1]>>
      [] OTHER -> [k \in DOMAIN params |-> params[Len(params) + 1 - k]]

\* NextItems without the instanceof Array branch: an array is handed to the
\* constructor as if it were one record.
NextItemsNoArray(shape, params) ==
    CASE shape = "none" -> <<NoObj>>
      [] shape = "single" -> <<params[1]>>
      [] OTHER -> <<NoObj>>

\* NextItems constructing from {} also when a record was given.
NextItemsIgnoresRecord(shape, params) ==
    CASE shape = "none" -> <<NoObj>>
      [] shape = "single" -> <<NoObj>>
      [] OTHER -> params

\* The partial records next() constructs contexts from, by the shape of its
\* params: omitted, one record, or an array of records.
NextItems(shape, params) ==
    CASE shape = "none" -> <<NoObj>>
      [] shape = "single" -> <<params[1]>>
      [] OTHER -> params

\* this.workflow.contextConstructor(partial): a class whose constructor does
\* Object.assign(this, params), as the tests' context classes do.
\* RuleMissing with a default rule that constructs instead of throwing.
RuleMissingIgnored(wf) == FALSE

\* The context constructor is still the default, which throws
\* "Not implemented!" whenever it is called.
RuleMissing(wf) == wf.contextConstructor = "unset"

\* A context class given to Flow.context whose constructor validates the
\* record it is given and throws on value 2.
RuleRejects(wf, partial) == wf.contextConstructor = "validate" /\ partial.value = Num(2)

\* Construct handing back the record it was given.
ConstructReuses(partial, id) == partial

Construct(partial, id) == Obj(id, partial.value, partial.processed)

\* StepNext taking the entries of the array in no fixed order: any entry not
\* yet published may be the next one.
StepNextAnyOrder ==
    /\ Len(stack) > 0
    /\ Last(stack).kind = "next"
    /\ LET f == Last(stack)
       IN IF f.i > Len(f.items)
          THEN /\ stack' = Front(stack)
               /\ log' = Append(log, Ev("trigret", f.id, 0, f.name, "", NoObj, 0, UndefV, 0))
               /\ UNCHANGED <<queue, microtasks, nobj>>
          ELSE IF RuleMissing(workflow)
          THEN LET u == Unwind(stack, microtasks, log)
               IN /\ stack' = u.stack
                  /\ microtasks' = u.microtasks
                  /\ log' = u.log
                  /\ UNCHANGED <<queue, nobj>>
          ELSE \E k \in f.i..Len(f.items) :
               LET ctx == Construct(f.items[k], nobj + 1)
                   left == [f.items EXCEPT ![k] = f.items[f.i], ![f.i] = f.items[k]]
                   c == PubCall(Append(Front(stack), [f EXCEPT !.i = f.i + 1, !.items = left]),
                                log, f.name, ctx, f.id)
               IN /\ Len(stack) < MaxDepth
                  /\ nobj' = nobj + 1
                  /\ queue' = Unshift(queue, f.name, ctx)
                  /\ stack' = c.stack
                  /\ log' = c.log
                  /\ UNCHANGED microtasks
    /\ UNCHANGED <<subscribes, workflow, taskStates, timers, calls, starts>>

\* StepNext constructing the contexts of all entries before it publishes
\* the first: an entry the rule rejects fails the trigger before anything
\* is published.
StepNextConstructsFirst ==
    /\ Len(stack) > 0
    /\ Last(stack).kind = "next"
    /\ LET f == Last(stack)
       IN IF f.i > Len(f.items)
          THEN /\ stack' = Front(stack)
               /\ log' = Append(log, Ev("trigret", f.id, 0, f.name, "", NoObj, 0, UndefV, 0))
               /\ UNCHANGED <<queue, microtasks, nobj>>
          ELSE IF \/ RuleMissing(workflow)
                  \/ \E k \in f.i..Len(f.items) : RuleRejects(workflow, f.items[k])
          THEN LET u == Unwind(stack, microtasks, log)
               IN /\ stack' = u.stack
                  /\ microtasks' = u.microtasks
                  /\ log' = u.log
                  /\ UNCHANGED <<queue, nobj>>
          ELSE LET ctx == Construct(f.items[f.i], nobj + 1)
                   c == PubCall(Append(Front(stack), [f EXCEPT !.i = f.i + 1]), log, f.name, ctx, f.id)
               IN /\ Len(stack) < MaxDepth
                  /\ nobj' = nobj + 1
                  /\ queue' = Unshift(queue, f.name, ctx)
                  /\ stack' = c.stack
                  /\ log' = c.log
                  /\ UNCHANGED microtasks
    /\ UNCHANGED <<subscribes, workflow, taskStates, timers, calls, starts>>

\* One round of next(): construct the entry's context and publish it.
StepNext ==
    /\ Len(stack) > 0
    /\ Last(stack).kind = "next"
    /\ LET f == Last(stack)
       IN IF f.i > Len(f.items)
          THEN /\ stack' = Front(stack)
               /\ log' = Append(log, Ev("trigret", f.id, 0, f.name, "", NoObj, 0, UndefV, 0))
               /\ UNCHANGED <<queue, microtasks, nobj>>
          ELSE IF RuleMissing(workflow) \/ RuleRejects(workflow, f.items[f.i])
          THEN LET u == Unwind(stack, microtasks, log)
               IN /\ stack' = u.stack
                  /\ microtasks' = u.microtasks
                  /\ log' = u.log
                  /\ UNCHANGED <<queue, nobj>>
          ELSE LET ctx == Construct(f.items[f.i], nobj + 1)
                   c == PubCall(Append(Front(stack), [f EXCEPT !.i = f.i + 1]), log, f.name, ctx, f.id)
               IN /\ Len(stack) < MaxDepth
                  /\ nobj' = nobj + 1
                  /\ queue' = Unshift(queue, f.name, ctx)
                  /\ stack' = c.stack
                  /\ log' = c.log
                  /\ UNCHANGED microtasks
    /\ UNCHANGED <<subscribes, workflow, taskStates, timers, calls, starts>>

\* ------------------------------------------------- user functions, stepwise
Running == Len(stack) > 0 /\ Last(stack).kind = "handler"

\* The instruction the running function is at ("return" past its end).
CurOp ==
    LET f == Last(stack)
    IN IF f.pc > Len(Body(f.h)) THEN "return" ELSE Body(f.h)[f.pc].op

CurInstr == Body(Last(stack).h)[Last(stack).pc]

Advance == Append(Front(stack), [Last(stack) EXCEPT !.pc = @ + 1])

\* The function returns.  An async function settles its promise, which wakes
\* whoever awaits it (the task wrapper, start()) in a later microtask.
StepReturn ==
    /\ Running
    /\ CurOp = "return"
    /\ LET f == Last(stack)
       IN /\ stack' = Front(stack)
          /\ microtasks' = IF IsAsync(f.h)
                           THEN Append(microtasks, Microtask(f.owner, "ok", f.id))
                           ELSE microtasks
          /\ log' = Append(log, Ev("end", f.id, 0, f.name, f.h, f.obj, f.sid, UndefV, 0))
    /\ UNCHANGED <<subscribes, queue, workflow, taskStates, timers, nobj, calls, starts>>

\* state.count += ctx.value
StepAcc ==
    /\ Running
    /\ CurOp = "acc"
    /\ LET f == Last(stack)
           v == Add(taskStates[f.sid], f.obj.value)
       IN /\ taskStates' = [taskStates EXCEPT ![f.sid] = v]
          /\ log' = Append(log, Ev("acc", f.id, 0, f.name, f.h, f.obj, f.sid, v, 0))
    /\ stack' = Advance
    /\ UNCHANGED <<subscribes, queue, workflow, microtasks, timers, nobj, calls, starts>>

\* throw new Error(...)
\* StepThrow with the throw statement doing nothing.
StepThrowIgnored ==
    /\ Running
    /\ CurOp = "throw"
    /\ stack' = Advance
    /\ UNCHANGED <<subscribes, queue, workflow, taskStates, microtasks, timers, log, nobj,
                   calls, starts>>

StepThrow ==
    /\ Running
    /\ CurOp = "throw"
    /\ LET u == Unwind(stack, microtasks, log)
       IN /\ stack' = u.stack
          /\ microtasks' = u.microtasks
          /\ log' = u.log
    /\ UNCHANGED <<subscribes, queue, workflow, taskStates, timers, nobj, calls, starts>>

\* await of a timer: the function leaves the stack with its promise pending
\* and control returns to the caller of the function.
\* StepAwait with the await passed over: the handler runs on at once.
StepAwaitSkipped ==
    /\ Running
    /\ CurOp = "await"
    /\ stack' = Advance
    /\ UNCHANGED <<subscribes, queue, workflow, taskStates, microtasks, timers, log, nobj,
                   calls, starts>>

\* StepAwait with the await holding the call stack until the timer is over.
StepAwaitBlocks ==
    /\ Running
    /\ CurOp = "await"
    /\ LET f == Last(stack)
       IN /\ stack' = Advance
          /\ log' = Append(Append(log,
                        Ev("susp", f.id, 0, f.name, f.h, f.obj, f.sid, UndefV, 0)),
                        Ev("resume", f.id, 0, f.name, f.h, f.obj, f.sid, UndefV, 0))
    /\ UNCHANGED <<subscribes, queue, workflow, taskStates, microtasks, timers, nobj, calls,
                   starts>>

\* StepAwait with the suspended function cancelled: it never resumes.
StepAwaitCancelled ==
    /\ Running
    /\ CurOp = "await"
    /\ LET f == Last(stack)
       IN /\ stack' = Front(stack)
          /\ log' = Append(log, Ev("susp", f.id, 0, f.name, f.h, f.obj, f.sid, UndefV, 0))
    /\ UNCHANGED <<subscribes, queue, workflow, taskStates, microtasks, timers, nobj, calls,
                   starts>>

StepAwait ==
    /\ Running
    /\ CurOp = "await"
    /\ LET f == Last(stack)
       IN /\ stack' = Front(stack)
          /\ timers' = Append(timers, [f EXCEPT !.pc = @ + 1])
          /\ log' = Append(log, Ev("susp", f.id, 0, f.name, f.h, f.obj, f.sid, UndefV, 0))
    /\ UNCHANGED <<subscribes, queue, workflow, taskStates, microtasks, nobj, calls, starts>>

\* next(name, params) called by a handler or by the startup hook: Flow.next
\* resolves the qualified topic from the workflow name current at the call.
StepCallNext ==
    /\ Running
    /\ CurOp = "next"
    /\ Len(stack) < MaxDepth
    /\ LET f == Last(stack)
           ins == CurInstr
           id == Len(log) + 1
           params == EvalExprs(ins.exprs, f.obj, nobj)
           full == QualifiedName(workflow.name, ins.name)
       IN /\ nobj' = nobj + FreshCount(ins.exprs)
          /\ stack' = Append(Advance, Frame("next", "", 1, NoObj, 0, full, "",
                                            NextItems(ins.shape, params), id, 1, 0))
          /\ log' = Append(log,
                [Ev("trig", id, f.id, full, ins.shape, f.obj, 0, UndefV, Len(params))
                 EXCEPT !.items = params, !.name = ins.name, !.wf = workflow.name])
    /\ UNCHANGED <<subscribes, queue, workflow, taskStates, microtasks, timers, calls, starts>>

\* const seen = state.count: the value goes into a local variable of the
\* invocation.
StepRead ==
    /\ Running
    /\ CurOp = "read"
    /\ LET f == Last(stack)
           v == taskStates[f.sid]
       IN /\ stack' = Append(Front(stack), [f EXCEPT !.pc = @ + 1, !.items = <<v>>])
          /\ log' = Append(log, Ev("read", f.id, 0, f.name, f.h, f.obj, f.sid, v, 0))
    /\ UNCHANGED <<subscribes, queue, workflow, taskStates, microtasks, timers, nobj, calls,
                   starts>>

\* StepWrite with the counter read again at the write:
\* state.count = state.count + 1.
StepWriteRereads ==
    /\ Running
    /\ CurOp = "write"
    /\ LET f == Last(stack)
           v == Add(taskStates[f.sid], Num(1))
       IN /\ taskStates' = [taskStates EXCEPT ![f.sid] = v]
          /\ log' = Append(log, Ev("write", f.id, 0, f.name, f.h, f.obj, f.sid, v, 0))
    /\ stack' = Advance
    /\ UNCHANGED <<subscribes, queue, workflow, microtasks, timers, nobj, calls, starts>>

\* state.count = seen + 1: the state record is the one every invocation of
\* the task was handed, the local variable is the invocation's own.
StepWrite ==
    /\ Running
    /\ CurOp = "write"
    /\ LET f == Last(stack)
           v == Add(f.items[1], Num(1))
       IN /\ taskStates' = [taskStates EXCEPT ![f.sid] = v]
          /\ log' = Append(log, Ev("write", f.id, 0, f.name, f.h, f.obj, f.sid, v, 0))
    /\ stack' = Advance
    /\ UNCHANGED <<subscribes, queue, workflow, microtasks, timers, nobj, calls, starts>>

\* state.attempts++
StepInc ==
    /\ Running
    /\ CurOp = "inc"
    /\ LET f == Last(stack)
           v == Add(taskStates[f.sid], Num(1))
       IN /\ taskStates' = [taskStates EXCEPT ![f.sid] = v]
          /\ log' = Append(log, Ev("inc", f.id, 0, f.name, f.h, f.obj, f.sid, v, 0))
    /\ stack' = Advance
    /\ UNCHANGED <<subscribes, queue, workflow, microtasks, timers, nobj, calls, starts>>

\* AtLeast with the comparison made strict: a > b.
AtLeastStrict(a, b) == a.t = "num" /\ a.n > b

\* a >= b on JavaScript values: false when either side is not a number.
AtLeast(a, b) == a.t = "num" /\ a.n >= b

\* StepRetry with the retry made by a loop inside the handler: while the
\* counter is below the bound the handler starts over in the same invocation.
StepRetryLoops ==
    /\ Running
    /\ CurOp = "retry"
    /\ Len(stack) < MaxDepth
    /\ LET f == Last(stack)
           ins == CurInstr
           id == Len(log) + 1
           params == EvalExprs(ins.exprs, f.obj, nobj)
           full == QualifiedName(workflow.name, ins.name)
       IN IF AtLeast(taskStates[f.sid], ins.bound)
          THEN /\ nobj' = nobj + FreshCount(ins.exprs)
               /\ stack' = Append(Advance, Frame("next", "", 1, NoObj, 0, full, "",
                                                 NextItems(ins.shape, params), id, 1, 0))
               /\ log' = Append(log,
                     [Ev("trig", id, f.id, full, ins.shape, f.obj, 0, UndefV, Len(params))
                      EXCEPT !.items = params, !.name = ins.name, !.wf = workflow.name])
          ELSE /\ stack' = Append(Front(stack), [f EXCEPT !.pc = 1])
               /\ UNCHANGED <<nobj, log>>
    /\ UNCHANGED <<subscribes, queue, workflow, taskStates, microtasks, timers, calls, starts>>

\* The retry decision of a handler: once the counter in its state has
\* reached the bound it calls next() for the successor, until then for itself.
StepRetry ==
    /\ Running
    /\ CurOp = "retry"
    /\ Len(stack) < MaxDepth
    /\ LET f == Last(stack)
           ins == CurInstr
           done == AtLeast(taskStates[f.sid], ins.bound)
           local == IF done THEN ins.name ELSE ins.self
           exprs == IF done THEN ins.exprs ELSE ins.selfExprs
           id == Len(log) + 1
           params == EvalExprs(exprs, f.obj, nobj)
           full == QualifiedName(workflow.name, local)
       IN /\ nobj' = nobj + FreshCount(exprs)
          /\ stack' = Append(Advance, Frame("next", "", 1, NoObj, 0, full, "",
                                            NextItems(ins.shape, params), id, 1, 0))
          /\ log' = Append(log,
                [Ev("trig", id, f.id, full, ins.shape, f.obj, 0, UndefV, Len(params))
                 EXCEPT !.items = params, !.name = local, !.wf = workflow.name])
    /\ UNCHANGED <<subscribes, queue, workflow, taskStates, microtasks, timers, calls, starts>>

\* A bus callback publishes a further message.
StepCallPub ==
    /\ Running
    /\ CurOp = "pub"
    /\ Len(stack) < MaxDepth
    /\ LET f == Last(stack)
           ins == CurInstr
           data == Eval(ins.exprs[1], f.obj, nobj + 1)
           c == PubCall(Advance, log, ins.name, data, f.id)
       IN /\ nobj' = nobj + FreshCount(ins.exprs)
          /\ queue' = Unshift(queue, ins.name, data)
          /\ stack' = c.stack
          /\ log' = c.log
    /\ UNCHANGED <<subscribes, workflow, taskStates, microtasks, timers, calls, starts>>

\* A bus callback subscribes a further callback.
StepCallSub ==
    /\ Running
    /\ CurOp = "sub"
    /\ IF Lookup(subscribes, CurInstr.name) = "inherited"
       THEN LET u == Unwind(stack, microtasks, log)
            IN /\ stack' = u.stack
               /\ microtasks' = u.microtasks
               /\ log' = u.log
               /\ UNCHANGED subscribes
       ELSE /\ subscribes' = Sub(subscribes, CurInstr.name,
                                 Callback("direct", CurInstr.cb, 0, <<>>))
            /\ stack' = Advance
            /\ log' = Append(log, Ev("sub", Len(log) + 1, Last(stack).id, CurInstr.name,
                                     CurInstr.cb, NoObj, 0, UndefV, 0))
            /\ UNCHANGED microtasks
    /\ UNCHANGED <<queue, workflow, taskStates, timers, nobj, calls, starts>>

\* ------------------------------------------------------------- event loop
\* RunMicrotask with start() awaiting the hook outside any try/catch: a
\* failed hook makes start()'s promise reject, and nobody handles that.
RunMicrotaskStartRejects ==
    /\ Len(stack) = 0
    /\ Len(microtasks) > 0
    /\ LET m == Head(microtasks)
           err == Ev("error", m.id, 0, <<>>, m.owner, NoObj, 0, UndefV, 0)
           lg1 == CASE m.outcome = "throw" /\ m.owner = "wrapper" -> Append(log, err)
                    [] m.outcome = "throw" /\ m.owner \in {"bus", "start"} ->
                          Append(log, Ev("unhandled", m.id, 0, <<>>, m.owner, NoObj, 0, UndefV, 0))
                    [] OTHER -> log
       IN log' = IF m.owner = "start" /\ m.outcome # "throw"
                 THEN Append(lg1, Ev("started", m.id, 0, <<>>, "", NoObj, 0, UndefV, 0))
                 ELSE lg1
    /\ microtasks' = Tail(microtasks)
    /\ UNCHANGED <<subscribes, queue, workflow, taskStates, stack, timers, nobj, calls, starts>>

\* With the stack empty the host runs the oldest microtask: the rest of the
\* task wrapper (its catch logs a failure), the rest of start() (likewise,
\* then start's promise resolves), or nobody for a bus callback's promise.
RunMicrotask ==
    /\ Len(stack) = 0
    /\ Len(microtasks) > 0
    /\ LET m == Head(microtasks)
           err == Ev("error", m.id, 0, <<>>, m.owner, NoObj, 0, UndefV, 0)
           lg1 == CASE m.outcome = "throw" /\ m.owner \in {"wrapper", "start"} -> Append(log, err)
                    [] m.outcome = "throw" /\ m.owner = "bus" ->
                          Append(log, Ev("unhandled", m.id, 0, <<>>, m.owner, NoObj, 0, UndefV, 0))
                    [] OTHER -> log
       IN log' = IF m.owner = "start"
                 THEN Append(lg1, Ev("started", m.id, 0, <<>>, "", NoObj, 0, UndefV, 0))
                 ELSE lg1
    /\ microtasks' = Tail(microtasks)
    /\ UNCHANGED <<subscribes, queue, workflow, taskStates, stack, timers, nobj, calls, starts>>

\* With nothing else to run, a timer fires and its function resumes.
FireTimer ==
    /\ Len(stack) = 0
    /\ Len(microtasks) = 0
    /\ \E k \in DOMAIN timers :
          /\ stack' = <<timers[k]>>
          /\ timers' = SubSeq(timers, 1, k - 1) \o SubSeq(timers, k + 1, Len(timers))
          /\ log' = Append(log, Ev("resume", timers[k].id, 0, timers[k].name, timers[k].h,
                                   timers[k].obj, timers[k].sid, UndefV, 0))
    /\ UNCHANGED <<subscribes, queue, workflow, taskStates, microtasks, nobj, calls, starts>>

\* --------------------------------------------- the driving script: the bus
Topics == {La, Lb, TopicToString}
BusCallbacks == {"cbRec", "cbThrow", "cbPub", "cbAsyncFail"}
Payloads == {1, 2}

\* queue.sub(topic, callback)
EnvSub ==
    /\ Len(stack) = 0
    /\ calls < MaxCalls
    /\ \E topic \in Topics, h \in BusCallbacks :
          IF Lookup(subscribes, topic) = "inherited"
          THEN \* TypeError: ...push is not a function
               /\ log' = Unwind(stack, microtasks, log).log
               /\ UNCHANGED subscribes
          ELSE /\ subscribes' = Sub(subscribes, topic, Callback("direct", h, 0, <<>>))
               /\ log' = Append(log, Ev("sub", Len(log) + 1, 0, topic, h, NoObj, 0, UndefV, 0))
    /\ calls' = calls + 1
    /\ UNCHANGED <<queue, workflow, taskStates, stack, microtasks, timers, nobj, starts>>

\* queue.pub(topic, data)
EnvPub ==
    /\ Len(stack) = 0
    /\ calls < MaxCalls
    /\ \E topic \in Topics, v \in Payloads :
          LET data == Obj(nobj + 1, Num(v), UndefV)
              c == PubCall(stack, log, topic, data, 0)
          IN /\ queue' = Unshift(queue, topic, data)
             /\ stack' = c.stack
             /\ log' = c.log
    /\ nobj' = nobj + 1
    /\ calls' = calls + 1
    /\ UNCHANGED <<subscribes, workflow, taskStates, microtasks, timers, starts>>

\* ---------------------------------------- the driving script: the workflow
WfNames == {WfW}
Hooks == {"hookOne", "hookBatch", "hookTwo", "hookBare", "hookEmpty", "hookThrow"}
TaskDefs ==
    { [local |-> La, h |-> "double", init |-> FALSE],
      [local |-> Lb, h |-> "plus10", init |-> FALSE],
      [local |-> Lc, h |-> "acc", init |-> TRUE],
      [local |-> La, h |-> "acc", init |-> TRUE],
      [local |-> La, h |-> "fail", init |-> FALSE],
      [local |-> La, h |-> "fan", init |-> FALSE],
      [local |-> La, h |-> "route", init |-> FALSE] }

\* SetName binding the registry to the new name as well: every task is
\* stored under its local name qualified by the name set now.
LocalPart(name) ==
    LET k == CHOOSE i \in DOMAIN name :
                 name[i] = "]" /\ \A j \in 1..(i - 1) : name[j] # "]"
    IN SubSeq(name, k + 2, Len(name))
SetNameRenamesTasks(wf, n) ==
    [wf EXCEPT !.name = n,
               !.tasks = [i \in DOMAIN @ |->
                             [@[i] EXCEPT !.name = QualifiedName(n, LocalPart(@))]]]

\* this.workflow.name = name
SetName(wf, n) == [wf EXCEPT !.name = n]

\* this.workflow.contextConstructor = (params) => new constructor(params)
SetContext(wf) == [wf EXCEPT !.contextConstructor = "assign"]

\* SetStartup keeping a hook that was set before: the first one set stays.
SetStartupKeepsFirst(wf, h) == IF wf.startup = "hookNone" THEN [wf EXCEPT !.startup = h] ELSE wf

\* this.workflow.startup = () => handler((...args) => this.next(...args))
SetStartup(wf, h) == [wf EXCEPT !.startup = h]

\* Flow.name
EnvName ==
    /\ Len(stack) = 0
    /\ starts = 0
    /\ \E n \in WfNames : workflow' = SetName(workflow, n)
    /\ UNCHANGED <<subscribes, queue, taskStates, stack, microtasks, timers, log, nobj, calls, starts>>

\* Flow.context
EnvContext ==
    /\ Len(stack) = 0
    /\ starts = 0
    /\ workflow' = SetContext(workflow)
    /\ UNCHANGED <<subscribes, queue, taskStates, stack, microtasks, timers, log, nobj, calls, starts>>

\* Flow.startup
EnvStartup ==
    /\ Len(stack) = 0
    /\ starts = 0
    /\ \E h \in Hooks : workflow' = SetStartup(workflow, h)
    /\ UNCHANGED <<subscribes, queue, taskStates, stack, microtasks, timers, log, nobj, calls, starts>>

\* PutTask adding a second entry for a name that is already registered.
PutTaskAppends(tasks, t) == Append(tasks, t)

\* this.workflow.tasks[taskName] = {...}: a new key goes last, an existing
\* key keeps its place.
PutTask(tasks, t) ==
    IF \E i \in DOMAIN tasks : tasks[i].name = t.name
    THEN [i \in DOMAIN tasks |-> IF tasks[i].name = t.name THEN t ELSE tasks[i]]
    ELSE Append(tasks, t)

\* args.initState ? args.initState() : {}
InitialState(init) == IF init THEN Num(0) ELSE UndefV

\* DefineTask storing the task under its local name, not the qualified one.
DefineTaskLocalKey(wf, states, local, h, init) ==
    [workflow |-> [wf EXCEPT !.tasks =
                      PutTask(@, [name |-> local, h |-> h, sid |-> Len(states) + 1])],
     taskStates |-> Append(states, InitialState(init)),
     result |-> QualifiedName(wf.name, local)]

\* DefineTask closing every handler over the first task's state record.
DefineTaskSharedState(wf, states, local, h, init) ==
    [workflow |-> [wf EXCEPT !.tasks =
                      PutTask(@, [name |-> QualifiedName(wf.name, local), h |-> h, sid |-> 1])],
     taskStates |-> Append(states, InitialState(init)),
     result |-> QualifiedName(wf.name, local)]

\* Flow.task: the state record is created here, once, and the task is stored
\* under the qualified name built from the workflow name current now.
DefineTask(wf, states, local, h, init) ==
    [workflow |-> [wf EXCEPT !.tasks =
                      PutTask(@, [name |-> QualifiedName(wf.name, local), h |-> h,
                                  sid |-> Len(states) + 1])],
     taskStates |-> Append(states, InitialState(init)),
     result |-> QualifiedName(wf.name, local)]

EnvTask ==
    /\ Len(stack) = 0
    /\ starts = 0
    /\ Len(taskStates) < MaxTasks
    /\ \E d \in TaskDefs :
          LET r == DefineTask(workflow, taskStates, d.local, d.h, d.init)
          IN /\ workflow' = r.workflow
             /\ taskStates' = r.taskStates
             /\ log' = Append(log,
                   [Ev("task", Len(log) + 1, 0, r.result, d.h, NoObj, Len(r.taskStates),
                       Last(r.taskStates), 0)
                    EXCEPT !.name = d.local, !.wf = workflow.name])
    /\ UNCHANGED <<subscribes, queue, stack, microtasks, timers, nobj, calls, starts>>

\* SubscribeAll made idempotent: a task whose handler is already subscribed
\* under its name is passed over.
RECURSIVE SubscribeAbsent(_, _)
SubscribeAbsent(subs, tasks) ==
    IF Len(tasks) = 0 THEN subs
    ELSE LET cb == Callback("task", Head(tasks).h, Head(tasks).sid, Head(tasks).name)
             there == /\ Head(tasks).name \in DOMAIN subs
                      /\ \E a \in DOMAIN subs[Head(tasks).name] : subs[Head(tasks).name][a] = cb
         IN SubscribeAbsent(IF there THEN subs ELSE Sub(subs, Head(tasks).name, cb),
                            Tail(tasks))

\* SubscribeAll leaving the loop after the first task of the registry.
SubscribeFirstOnly(subs, tasks) ==
    IF Len(tasks) = 0 THEN subs
    ELSE Sub(subs, Head(tasks).name,
             Callback("task", Head(tasks).h, Head(tasks).sid, Head(tasks).name))

\* start(), the loop: this.sub(task.name, task.handler) for every task of the
\* registry, in the registry's order.
RECURSIVE SubscribeAll(_, _)
SubscribeAll(subs, tasks) ==
    IF Len(tasks) = 0 THEN subs
    ELSE SubscribeAll(Sub(subs, Head(tasks).name,
                          Callback("task", Head(tasks).h, Head(tasks).sid, Head(tasks).name)),
                      Tail(tasks))

\* console.log(`subscribe ${task.name}`), once per task.
RECURSIVE LogSubscribes(_, _)
LogSubscribes(lg, tasks) ==
    IF Len(tasks) = 0 THEN lg
    ELSE LogSubscribes(
            Append(lg, Ev("sub", Len(lg) + 1, 0, Head(tasks).name, Head(tasks).h, NoObj,
                          Head(tasks).sid, UndefV, 0)),
            Tail(tasks))

\* Flow.start: subscribe every task, then call the startup hook.  The hook
\* runs on the stack until it returns or suspends; start() awaits it.
StartCall ==
    /\ Len(stack) = 0
    /\ subscribes' = SubscribeAll(subscribes, workflow.tasks)
    /\ LET lg == LogSubscribes(log, workflow.tasks)
       IN /\ stack' = <<Frame("handler", workflow.startup, 1, NoObj, 0, <<>>, "start", <<>>,
                              Len(lg) + 1, 0, 0)>>
          /\ log' = Append(lg, [Ev("start", Len(lg) + 1, 0, <<>>, workflow.startup, NoObj, 0,
                                   UndefV, 0) EXCEPT !.wf = workflow.name])
    /\ starts' = starts + 1
    /\ UNCHANGED <<queue, workflow, taskStates, microtasks, timers, nobj, calls>>

\* start() called once, after the workflow is configured.
EnvStart == starts < MaxStarts /\ StartCall

\* ------------------------- the driving script: a workflow started again
\* The script goes on defining tasks and calls start() again.
LifeHooks == {"hookOne", "hookTwo"}
LifeTaskDefs ==
    { [local |-> La, h |-> "acc", init |-> TRUE],
      [local |-> Lb, h |-> "acc", init |-> TRUE],
      [local |-> La, h |-> "double", init |-> FALSE] }

\* Flow.startup, at any time between two runs.
LifeStartup ==
    /\ Len(stack) = 0
    /\ \E h \in LifeHooks : workflow' = SetStartup(workflow, h)
    /\ UNCHANGED <<subscribes, queue, taskStates, stack, microtasks, timers, log, nobj, calls, starts>>

\* Flow.task, before or after a start().
LifeTask ==
    /\ Len(stack) = 0
    /\ Len(taskStates) < MaxTasks
    /\ \E d \in LifeTaskDefs :
          LET r == DefineTask(workflow, taskStates, d.local, d.h, d.init)
          IN /\ workflow' = r.workflow
             /\ taskStates' = r.taskStates
             /\ log' = Append(log,
                   [Ev("task", Len(log) + 1, 0, r.result, d.h, NoObj, Len(r.taskStates),
                       Last(r.taskStates), 0)
                    EXCEPT !.name = d.local, !.wf = workflow.name])
    /\ UNCHANGED <<subscribes, queue, stack, microtasks, timers, nobj, calls, starts>>

\* start(), possibly not for the first time.
LifeStart == starts < MaxRestarts /\ StartCall

\* ------------------- the driving script: a workflow whose handlers suspend
AsyncHooks == {"hookBatch", "hookTwo"}
AsyncTaskDefs ==
    { [local |-> La, h |-> "slow", init |-> FALSE],
      [local |-> La, h |-> "slowFail", init |-> FALSE],
      [local |-> Lb, h |-> "acc", init |-> TRUE],
      [local |-> Lc, h |-> "acc", init |-> TRUE] }

\* Flow.startup
AsyncStartup ==
    /\ Len(stack) = 0
    /\ starts = 0
    /\ \E h \in AsyncHooks : workflow' = SetStartup(workflow, h)
    /\ UNCHANGED <<subscribes, queue, taskStates, stack, microtasks, timers, log, nobj, calls, starts>>

\* Flow.task
AsyncTask ==
    /\ Len(stack) = 0
    /\ starts = 0
    /\ Len(taskStates) < MaxTasks
    /\ \E d \in AsyncTaskDefs :
          LET r == DefineTask(workflow, taskStates, d.local, d.h, d.init)
          IN /\ workflow' = r.workflow
             /\ taskStates' = r.taskStates
             /\ log' = Append(log,
                   [Ev("task", Len(log) + 1, 0, r.result, d.h, NoObj, Len(r.taskStates),
                       Last(r.taskStates), 0)
                    EXCEPT !.name = d.local, !.wf = workflow.name])
    /\ UNCHANGED <<subscribes, queue, stack, microtasks, timers, nobj, calls, starts>>

\* --------------- the driving script: a workflow with a task that retries
RetryHooks == {"hookOne", "hookTwo", "hookBatch"}
RetryTaskDefs ==
    { [local |-> La, h |-> "retryTwice", init |-> TRUE],
      [local |-> La, h |-> "retryThrice", init |-> TRUE],
      [local |-> Lb, h |-> "plus10", init |-> FALSE],
      [local |-> Lb, h |-> "acc", init |-> TRUE],
      [local |-> Lc, h |-> "acc", init |-> TRUE] }

\* Flow.startup
RetryStartup ==
    /\ Len(stack) = 0
    /\ starts = 0
    /\ \E h \in RetryHooks : workflow' = SetStartup(workflow, h)
    /\ UNCHANGED <<subscribes, queue, taskStates, stack, microtasks, timers, log, nobj, calls, starts>>

\* Flow.task
RetryTask ==
    /\ Len(stack) = 0
    /\ starts = 0
    /\ Len(taskStates) < MaxTasks
    /\ \E d \in RetryTaskDefs :
          LET r == DefineTask(workflow, taskStates, d.local, d.h, d.init)
          IN /\ workflow' = r.workflow
             /\ taskStates' = r.taskStates
             /\ log' = Append(log,
                   [Ev("task", Len(log) + 1, 0, r.result, d.h, NoObj, Len(r.taskStates),
                       Last(r.taskStates), 0)
                    EXCEPT !.name = d.local, !.wf = workflow.name])
    /\ UNCHANGED <<subscribes, queue, stack, microtasks, timers, nobj, calls, starts>>

\* ------ the driving script: a task that updates its state across an await
RaceHooks == {"hookOne", "hookTwo", "hookBatch"}
RaceTaskDefs ==
    { [local |-> La, h |-> "countSlowly", init |-> TRUE],
      [local |-> Lb, h |-> "countSlowly", init |-> TRUE],
      [local |-> La, h |-> "slow", init |-> FALSE],
      [local |-> Lc, h |-> "countSlowly", init |-> TRUE] }

\* Flow.startup
RaceStartup ==
    /\ Len(stack) = 0
    /\ starts = 0
    /\ \E h \in RaceHooks : workflow' = SetStartup(workflow, h)
    /\ UNCHANGED <<subscribes, queue, taskStates, stack, microtasks, timers, log, nobj, calls, starts>>

\* Flow.task
RaceTask ==
    /\ Len(stack) = 0
    /\ starts = 0
    /\ Len(taskStates) < MaxTasks
    /\ \E d \in RaceTaskDefs :
          LET r == DefineTask(workflow, taskStates, d.local, d.h, d.init)
          IN /\ workflow' = r.workflow
             /\ taskStates' = r.taskStates
             /\ log' = Append(log,
                   [Ev("task", Len(log) + 1, 0, r.result, d.h, NoObj, Len(r.taskStates),
                       Last(r.taskStates), 0)
                    EXCEPT !.name = d.local, !.wf = workflow.name])
    /\ UNCHANGED <<subscribes, queue, stack, microtasks, timers, nobj, calls, starts>>

\* ------------- the driving script: a workflow configured over and over
\* The setters called any number of times up to MaxSets, in any order, each
\* call noted in the history.
CfgNames == {WfW, WfV}
CfgHooks == {"hookOne", "hookTwo", "hookBare"}
CfgTaskDefs ==
    { [local |-> La, h |-> "acc", init |-> TRUE],
      [local |-> Lb, h |-> "acc", init |-> TRUE] }

\* Flow.name
CfgName ==
    /\ Len(stack) = 0
    /\ starts = 0
    /\ calls < MaxSets
    /\ \E n \in CfgNames :
          /\ workflow' = SetName(workflow, n)
          /\ log' = Append(log, [Ev("setName", Len(log) + 1, 0, <<>>, "", NoObj, 0, UndefV, 0)
                                 EXCEPT !.wf = n])
    /\ calls' = calls + 1
    /\ UNCHANGED <<subscribes, queue, taskStates, stack, microtasks, timers, nobj, starts>>

\* Flow.context
CfgContext ==
    /\ Len(stack) = 0
    /\ starts = 0
    /\ calls < MaxSets
    /\ workflow' = SetContext(workflow)
    /\ log' = Append(log, Ev("setContext", Len(log) + 1, 0, <<>>, "", NoObj, 0, UndefV, 0))
    /\ calls' = calls + 1
    /\ UNCHANGED <<subscribes, queue, taskStates, stack, microtasks, timers, nobj, starts>>

\* Flow.startup
CfgStartup ==
    /\ Len(stack) = 0
    /\ starts = 0
    /\ calls < MaxSets
    /\ \E h \in CfgHooks :
          /\ workflow' = SetStartup(workflow, h)
          /\ log' = Append(log, Ev("setStartup", Len(log) + 1, 0, <<>>, h, NoObj, 0, UndefV, 0))
    /\ calls' = calls + 1
    /\ UNCHANGED <<subscribes, queue, taskStates, stack, microtasks, timers, nobj, starts>>

\* Flow.task
CfgTask ==
    /\ Len(stack) = 0
    /\ starts = 0
    /\ Len(taskStates) < MaxTasks
    /\ \E d \in CfgTaskDefs :
          LET r == DefineTask(workflow, taskStates, d.local, d.h, d.init)
          IN /\ workflow' = r.workflow
             /\ taskStates' = r.taskStates
             /\ log' = Append(log,
                   [Ev("task", Len(log) + 1, 0, r.result, d.h, NoObj, Len(r.taskStates),
                       Last(r.taskStates), 0)
                    EXCEPT !.name = d.local, !.wf = workflow.name])
    /\ UNCHANGED <<subscribes, queue, stack, microtasks, timers, nobj, calls, starts>>

\* ---------------------------------------------------------- specifications
\* The bus used on its own.
NextQueue ==
    \/ EnvSub
    \/ EnvPub
    \/ StepUpdate
    \/ StepForEach
    \/ StepReturn
    \/ StepThrow
    \/ StepAwait
    \/ StepCallPub
    \/ RunMicrotask
    \/ FireTimer

SpecQueue == Init /\ [][NextQueue]_vars

\* A workflow whose handlers all run to completion without suspending.
Next ==
    \/ EnvName
    \/ EnvContext
    \/ EnvStartup
    \/ EnvTask
    \/ EnvStart
    \/ StepUpdate
    \/ StepForEach
    \/ StepNext
    \/ StepReturn
    \/ StepAcc
    \/ StepThrow
    \/ StepCallNext
    \/ RunMicrotask

Spec == Init /\ [][Next]_vars

\* A workflow with handlers that suspend at a timer.
NextAsync ==
    \/ EnvContext
    \/ AsyncStartup
    \/ AsyncTask
    \/ EnvStart
    \/ StepUpdate
    \/ StepForEach
    \/ StepNext
    \/ StepReturn
    \/ StepAcc
    \/ StepThrow
    \/ StepAwait
    \/ StepCallNext
    \/ RunMicrotask
    \/ FireTimer

SpecAsync == Init /\ [][NextAsync]_vars

\* A workflow that is defined further and started again while it lives.
NextLife ==
    \/ EnvContext
    \/ LifeStartup
    \/ LifeTask
    \/ LifeStart
    \/ StepUpdate
    \/ StepForEach
    \/ StepNext
    \/ StepReturn
    \/ StepAcc
    \/ StepCallNext
    \/ RunMicrotask

SpecLife == Init /\ [][NextLife]_vars

\* A workflow with a task that triggers itself until its counter is reached.
NextRetry ==
    \/ EnvContext
    \/ RetryStartup
    \/ RetryTask
    \/ EnvStart
    \/ StepUpdate
    \/ StepForEach
    \/ StepNext
    \/ StepReturn
    \/ StepAcc
    \/ StepInc
    \/ StepRetry
    \/ StepCallNext
    \/ RunMicrotask

SpecRetry == Init /\ [][NextRetry]_vars

\* A workflow with a task that reads its state, awaits, and writes it.
NextRace ==
    \/ EnvContext
    \/ RaceStartup
    \/ RaceTask
    \/ EnvStart
    \/ StepUpdate
    \/ StepForEach
    \/ StepNext
    \/ StepReturn
    \/ StepRead
    \/ StepWrite
    \/ StepAwait
    \/ StepCallNext
    \/ RunMicrotask
    \/ FireTimer

SpecRace == Init /\ [][NextRace]_vars

\* A workflow whose configuration is set several times before it starts.
NextConfig ==
    \/ CfgName
    \/ CfgContext
    \/ CfgStartup
    \/ CfgTask
    \/ EnvStart
    \/ StepUpdate
    \/ StepForEach
    \/ StepNext
    \/ StepReturn
    \/ StepAcc
    \/ StepCallNext
    \/ RunMicrotask

SpecConfig == Init /\ [][NextConfig]_vars

\* ================================================================ claims
\* Reading the history.
PubReturned(p) == \E j \in DOMAIN log : log[j].e = "pubret" /\ log[j].id = p
PubThrew(p) == \E j \in DOMAIN log : log[j].e = "pubthrow" /\ log[j].id = p
PubEndIdx(p) == CHOOSE j \in DOMAIN log : log[j].e \in {"pubret", "pubthrow"} /\ log[j].id = p
Failed(c) == \E j \in DOMAIN log : log[j].e = "fail" /\ log[j].id = c
FailIdx(c) == CHOOSE j \in DOMAIN log : log[j].e = "fail" /\ log[j].id = c
\* The callbacks pub p invoked, as indices of the history.
CallsOf(p) == {i \in DOMAIN log : log[i].e = "call" /\ log[i].par = p}
\* The subscriptions made to a topic before history index p, oldest first.
RegsBefore(topic, p) ==
    LET idx == {i \in 1..p : log[i].e = "sub" /\ log[i].topic = topic}
    IN [k \in 1..Cardinality(idx) |->
           log[CHOOSE i \in idx : Cardinality({j \in idx : j <= i}) = k]]

\* C1: one publish to a topic with N >= 0 subscriptions invokes exactly those
\* N subscriptions, once each, in registration order (a callback registered
\* twice is invoked twice), each with the payload that was published, all
\* before publish returns.
C1_PublishInvokesEachSubscriptionOnce ==
    \A p \in DOMAIN log :
        (log[p].e = "pub" /\ (PubReturned(p) \/ PubThrew(p))) =>
            LET regs == RegsBefore(log[p].topic, p)
                cs == CallsOf(p)
            IN /\ Cardinality(cs) = Len(regs)
               /\ \A k \in DOMAIN regs :
                     \E i \in cs :
                        /\ log[i].n = k
                        /\ log[i].h = regs[k].h
                        /\ log[i].obj = log[p].obj
                        /\ i < PubEndIdx(p)
                        /\ \A j \in cs : log[j].n < k => j < i

\* C1 witness: a publish has returned from a topic on which the same callback
\* was registered twice.
C1_Witness ==
    \E p \in DOMAIN log :
        /\ log[p].e = "pub"
        /\ PubReturned(p)
        /\ LET regs == RegsBefore(log[p].topic, p)
           IN Len(regs) >= 2 /\ regs[1].h = regs[2].h

\* C6: when subscriber k of N fails synchronously, the publish that invoked
\* it does not raise: it goes on, invokes subscribers k+1..N with the payload,
\* in order, and returns normally.
C6_SyncFailureContained ==
    \A c \in DOMAIN log :
        (log[c].e = "call" /\ ~IsAsync(log[c].h) /\ Failed(c)) =>
            LET p == log[c].par
                regs == RegsBefore(log[p].topic, p)
            IN /\ ~PubThrew(p)
               /\ PubReturned(p) \/ (\E d \in DOMAIN stack : stack[d].kind = "pub" /\ stack[d].id = p)
               /\ PubReturned(p) =>
                     \A k \in (log[c].n + 1)..Len(regs) :
                        \E i \in CallsOf(p) :
                           /\ i > FailIdx(c)
                           /\ log[i].n = k
                           /\ log[i].h = regs[k].h
                           /\ log[i].obj = log[p].obj

\* C6 witness: a publish has returned whose first subscriber threw and whose
\* second subscriber ran after that.
C6_Witness ==
    \E c \in DOMAIN log :
        /\ log[c].e = "call"
        /\ log[c].n = 1
        /\ ~IsAsync(log[c].h)
        /\ Failed(c)
        /\ PubReturned(log[c].par)
        /\ \E i \in CallsOf(log[c].par) : log[i].n = 2 /\ i > FailIdx(c)

\* C7: a publish to a topic without subscribers raises nothing, invokes no
\* callback and leaves the bus as it was before the call: the pending buffer
\* is again what it was before the message was put in front of it, and the
\* subscriber lists are untouched.
C7_PublishWithoutSubscribersIsNoOp ==
    [][(/\ Len(stack) > 0
        /\ Last(stack).kind = "pub"
        /\ Last(stack).pc = 1
        /\ Last(stack).name \notin DOMAIN subscribes)
       => (/\ stack' = Front(stack)
           /\ queue' = Tail(queue)
           /\ subscribes' = subscribes
           /\ log' = Append(log, Ev("pubret", Last(stack).id, 0, Last(stack).name, "",
                                    NoObj, 0, UndefV, 0)))]_vars

\* ------------------------------------------------------ the workflow engine
Opening == {"start", "call", "pub", "trig"}
Closing == {"end", "fail", "pubret", "pubthrow", "trigret", "trigthrow"}
Closed(i) == \E j \in DOMAIN log : log[j].e \in Closing /\ log[j].id = i
CloseIdx(i) == CHOOSE j \in DOMAIN log : log[j].e \in Closing /\ log[j].id = i
Ended(c) == \E j \in DOMAIN log : log[j].e = "end" /\ log[j].id = c
TrigReturned(t) == \E j \in DOMAIN log : log[j].e = "trigret" /\ log[j].id = t
TrigThrew(t) == \E j \in DOMAIN log : log[j].e = "trigthrow" /\ log[j].id = t
\* What history entry i ran under: itself, what opened it, and so on upwards.
RECURSIVE Ancestors(_)
Ancestors(i) == IF i = 0 THEN {} ELSE {i} \cup Ancestors(log[i].par)
\* The publishes trigger t made, and the triggers invocation o issued.
PubsOf(t) == {i \in DOMAIN log : log[i].e = "pub" /\ log[i].par = t}
TrigsOf(o) == {i \in DOMAIN log : log[i].e = "trig" /\ log[i].par = o}
\* The k-th smallest member of a set of history indices.
Nth(S, k) == CHOOSE i \in S : Cardinality({j \in S : j <= i}) = k
\* A trigger has just returned.
JustReturned == Len(log) > 0 /\ Last(log).e = "trigret"
\* Every subscription of its topic was invoked by pub p.
AllInvoked(p) == Cardinality(CallsOf(p)) = Len(RegsBefore(log[p].topic, p))

\* C2: with handlers that run to completion without suspending, a trigger
\* returns only after the triggered task and everything it transitively
\* triggers has run to completion; nothing else runs in between, and of two
\* things started under the trigger the later one either runs inside the
\* earlier one or starts after the earlier one is over (depth-first,
\* pre-order, in the order the triggers are issued).
C2_TriggerRunsSubtreeBeforeReturning ==
    JustReturned =>
        LET t == Last(log).id
            ret == Len(log)
            span == (t + 1)..(ret - 1)
            opened == {i \in span : log[i].e \in Opening}
        IN /\ \A i \in span :
                 /\ log[i].e \in Opening \cup Closing \cup {"acc"}
                 /\ log[i].e \in Closing \cup {"acc"} => log[i].id \in opened
           /\ \A i \in opened : t \in Ancestors(i) /\ Closed(i) /\ CloseIdx(i) < ret
           /\ \A p \in PubsOf(t) : AllInvoked(p)
           /\ \A i, j \in opened :
                 i < j => ((i \in Ancestors(j)) <=> (j < CloseIdx(i)))
           /\ \A t0 \in TrigsOf(log[t].par) : t0 < t => Closed(t0) /\ CloseIdx(t0) < t

\* C2 witness: a trigger has returned under which a task ran that issued two
\* triggers of its own, each of which ran a task.
C2_Witness ==
    /\ JustReturned
    /\ \E c \in DOMAIN log :
          /\ log[c].e = "call"
          /\ Last(log).id \in Ancestors(c)
          /\ \E t1, t2 \in TrigsOf(c) :
                /\ t1 < t2
                /\ \E p \in PubsOf(t1) : CallsOf(p) # {}
                /\ \E p \in PubsOf(t2) : CallsOf(p) # {}

\* C3: a trigger with a sequence of M partial contexts, handlers being
\* synchronous, invokes the task M times, in sequence order, each time with
\* the context of its entry, and everything entry i started is over before
\* the task is invoked for entry i+1.
C3_BatchRunsEntriesInOrder ==
    (JustReturned /\ log[Last(log).id].h = "batch") =>
        LET t == Last(log).id
            items == log[t].items
            ps == PubsOf(t)
        IN /\ Cardinality(ps) = Len(items)
           /\ \A k \in DOMAIN items :
                 LET p == Nth(ps, k)
                 IN /\ AllInvoked(p)
                    /\ \A c \in CallsOf(p) : log[c].obj.value = items[k].value
                    /\ \A i \in p..Len(log) :
                          (log[i].e \in Opening /\ p \in Ancestors(i)) =>
                             /\ Closed(i)
                             /\ k < Len(items) => CloseIdx(i) < Nth(ps, k + 1)

\* C3 witness: a trigger with three entries has returned, and the task it
\* ran for the first entry triggered a further task that ran.
C3_Witness ==
    /\ JustReturned
    /\ LET t == Last(log).id
       IN /\ log[t].h = "batch"
          /\ Len(log[t].items) = 3
          /\ \E c \in CallsOf(Nth(PubsOf(t), 1)) :
                \E t1 \in TrigsOf(c) : \E p \in PubsOf(t1) : CallsOf(p) # {}

\* The value of task state sid just before history index i: what the last
\* handler to touch it left there, or what Flow.task created it with.
StateBefore(sid, i) ==
    LET prev == {j \in 1..(i - 1) : log[j].e = "acc" /\ log[j].sid = sid}
    IN IF prev = {}
       THEN log[CHOOSE d \in DOMAIN log : log[d].e = "task" /\ log[d].sid = sid].val
       ELSE log[CHOOSE j \in prev : \A j2 \in prev : j2 <= j].val

\* C4: a task's state is created once, when the task is defined, and not
\* again at start() or per trigger: every invocation finds the state as the
\* invocation before it left it, so a task that adds its context value to its
\* state holds, after its k-th addition, the initial value plus v1 + ... + vk.
C4_StatePersistsAndAccumulates ==
    /\ Cardinality({d \in DOMAIN log : log[d].e = "task"}) = Len(taskStates)
    /\ \A sid \in DOMAIN taskStates : taskStates[sid] = StateBefore(sid, Len(log) + 1)
    /\ \A d \in DOMAIN log :
          (log[d].e = "task" /\ log[d].h = "acc") => log[d].val = Num(0)
    /\ \A i \in DOMAIN log :
          /\ (log[i].e = "call" /\ log[i].sid > 0) => log[i].val = StateBefore(log[i].sid, i)
          /\ log[i].e = "acc" => log[i].val = Add(StateBefore(log[i].sid, i), log[i].obj.value)

\* C4 witness: a task triggered with the values 1, 2, 3 has left 1, then 3,
\* then 6 in its state.
C4_Witness ==
    \E i, j, k \in DOMAIN log :
        /\ i < j /\ j < k
        /\ log[i].e = "acc" /\ log[j].e = "acc" /\ log[k].e = "acc"
        /\ log[i].sid = log[j].sid /\ log[j].sid = log[k].sid
        /\ log[i].obj.value = Num(1) /\ log[j].obj.value = Num(2) /\ log[k].obj.value = Num(3)
        /\ log[i].val = Num(1) /\ log[j].val = Num(3) /\ log[k].val = Num(6)
        /\ taskStates[log[k].sid] = Num(6)

\* The number of triggers a handler's code issues.
NextCount(h) == Cardinality({k \in DOMAIN Body(h) : Body(h)[k].op = "next"})

\* C5: a task handler that fails aborts nothing: the failure is not thrown on
\* to the publish, the trigger or the code that issued the trigger, and when
\* that code has run to its end it has issued every one of its triggers, and
\* each trigger after the failing one has returned with its task invoked.
C5_FailingTaskDoesNotAbort ==
    \A c \in DOMAIN log :
        (log[c].e = "call" /\ log[c].sid > 0 /\ Failed(c)) =>
            LET p == log[c].par
                t == log[p].par
                o == log[t].par
            IN /\ ~PubThrew(p)
               /\ ~TrigThrew(t)
               /\ FailIdx(c) < Len(log) => log[FailIdx(c) + 1].e \in {"call", "pubret"}
               /\ \A i \in DOMAIN log : log[i].e # "raise"
               /\ Ended(o) =>
                     /\ Cardinality(TrigsOf(o)) = NextCount(log[o].h)
                     /\ \A t2 \in TrigsOf(o) :
                           t2 > t =>
                              /\ TrigReturned(t2)
                              /\ \A p2 \in PubsOf(t2) :
                                    AllInvoked(p2) /\ \A c2 \in CallsOf(p2) : Closed(c2)

\* C5 witness: the startup hook has run to its end after the task of its
\* first trigger failed and the task of its second trigger ran.
C5_Witness ==
    \E c \in DOMAIN log :
        /\ log[c].e = "call" /\ log[c].sid > 0 /\ Failed(c)
        /\ LET t == log[log[c].par].par
               o == log[t].par
           IN /\ log[o].e = "start"
              /\ Ended(o)
              /\ \E t2 \in TrigsOf(o) :
                    t2 > t /\ \E p2 \in PubsOf(t2) : \E c2 \in CallsOf(p2) : Ended(c2)

\* The partial records a trigger constructs contexts from, read off the
\* arguments it was called with.
PartialsOf(t) ==
    CASE log[t].h = "none" -> <<NoObj>>
      [] log[t].h = "single" -> <<log[t].items[1]>>
      [] OTHER -> log[t].items

\* C8: the number of publishes of a trigger is fixed by the shape of its
\* params: omitted, one publish of a context constructed from the empty
\* partial; one record, one publish of the context constructed from it; a
\* sequence of M >= 0 records, M publishes, one per entry, in sequence order.
C8_TriggerPublishesByShape ==
    JustReturned =>
        LET t == Last(log).id
            ps == PubsOf(t)
            want == PartialsOf(t)
        IN /\ log[t].h = "none" => (Len(log[t].items) = 0 /\ Cardinality(ps) = 1)
           /\ log[t].h = "single" => Cardinality(ps) = 1
           /\ log[t].h = "batch" => Cardinality(ps) = Len(log[t].items)
           /\ Cardinality(ps) = Len(want)
           /\ \A k \in DOMAIN want :
                 LET x == log[Nth(ps, k)]
                 IN /\ x.topic = log[t].topic
                    /\ x.obj.value = want[k].value
                    /\ x.obj.processed = want[k].processed
                    /\ \A a \in DOMAIN log[t].items : x.obj.id # log[t].items[a].id
                    /\ \A k2 \in DOMAIN want : k2 # k => log[Nth(ps, k2)].obj.id # x.obj.id

\* C8 witness: one handler has issued a trigger with a sequence of two
\* records and a trigger without params, and both have returned.
C8_Witness ==
    /\ JustReturned
    /\ LET t == Last(log).id
       IN /\ log[t].h = "none"
          /\ \E t0 \in TrigsOf(log[t].par) :
                /\ log[t0].h = "batch"
                /\ Cardinality(PubsOf(t0)) = 2
                /\ TrigReturned(t0)

\* The qualified name as the documentation spells it.
Qualified(wf, local) == <<"[">> \o wf \o <<"]", " ">> \o local
\* The definitions of local name L made so far.
DefsOf(L) == {d \in DOMAIN log : log[d].e = "task" /\ log[d].name = L}

\* C9: Flow.task returns "[" + workflow name + "] " + local name, a trigger
\* resolves a local name to a topic of the same form, and so after start() a
\* trigger of local name L invokes the handler that was defined under L (the
\* latest such definition), and no other task's handler.
C9_TriggerInvokesHandlerDefinedUnderName ==
    /\ \A d \in DOMAIN log :
          log[d].e = "task" => log[d].topic = Qualified(log[d].wf, log[d].name)
    /\ \A t \in DOMAIN log :
          log[t].e = "trig" => log[t].topic = Qualified(log[t].wf, log[t].name)
    /\ JustReturned =>
          LET t == Last(log).id
              defs == DefsOf(log[t].name)
          IN defs # {} =>
                LET d == CHOOSE x \in defs : \A y \in defs : y <= x
                IN \A p \in PubsOf(t) :
                      /\ CallsOf(p) # {}
                      /\ \A c \in CallsOf(p) :
                            log[c].h = log[d].h /\ log[c].sid = log[d].sid

DeliveredBefore(i) == {log[c].obj.id : c \in {j \in 1..(i - 1) : log[j].e = "call"}}

\* C11: every message a trigger publishes carries a context the construction
\* rule made for that very publish: it is not the partial record the trigger
\* was handed (also when a handler hands over its own context), not a context
\* published or delivered before, and each entry of a batch gets its own.
C11_PublishedContextIsFresh ==
    (Len(log) > 0 /\ Last(log).e = "pub" /\ Last(log).par > 0) =>
        LET p == Len(log)
            t == log[p].par
            k == Cardinality(PubsOf(t))
            partial == PartialsOf(t)[k]
        IN /\ log[p].obj.id > 0
           /\ \A a \in DOMAIN log[t].items : log[p].obj.id # log[t].items[a].id
           /\ log[p].obj.id # log[t].obj.id
           /\ log[p].obj.id \notin DeliveredBefore(p)
           /\ \A q \in 1..(p - 1) : log[q].e = "pub" => log[q].obj.id # log[p].obj.id
           /\ log[p].obj.value = partial.value
           /\ log[p].obj.processed = partial.processed

\* C11 witness: a handler has triggered a task with its own context as the
\* partial, and the message published carries another object with the same
\* fields.
C11_Witness ==
    /\ Len(log) > 0
    /\ Last(log).e = "pub"
    /\ Last(log).par > 0
    /\ LET t == Last(log).par
       IN /\ log[t].h = "single"
          /\ log[t].items[1].id = log[t].obj.id
          /\ log[t].obj.id \in DeliveredBefore(t)
          /\ Last(log).obj.value = log[t].obj.value

\* C12: over every sequence of Flow.task, start and trigger calls there is
\* one state record per qualified task name: all invocations of handlers
\* subscribed under one name are handed the same record.
C12_OneStateRecordPerTaskName ==
    \A c1, c2 \in DOMAIN log :
        (/\ log[c1].e = "call"
         /\ log[c2].e = "call"
         /\ log[c1].sid > 0
         /\ log[c2].sid > 0
         /\ log[c1].topic = log[c2].topic)
        => log[c1].sid = log[c2].sid

\* The definition a subscribed handler came from: the Flow.task call that
\* returned its name and created the state record it is handed.
DefinitionOf(c) ==
    {d \in DOMAIN log : log[d].e = "task" /\ log[d].sid = log[c].sid}

\* C13: task state is private to its task.  The record a handler is handed
\* is the one created when its task was defined, no handler of another
\* definition is handed it, a step changes a state record only while a
\* handler of that record's task is running, and a published context holds
\* the context's fields and no state.
C13_StatePrivateToTask ==
    /\ [](/\ \A c \in DOMAIN log :
                (log[c].e = "call" /\ log[c].sid > 0) =>
                    /\ Cardinality(DefinitionOf(c)) = 1
                    /\ \A d \in DefinitionOf(c) :
                          log[d].topic = log[c].topic /\ log[d].h = log[c].h
          /\ \A d1, d2 \in DOMAIN log :
                (log[d1].e = "task" /\ log[d2].e = "task" /\ d1 # d2) =>
                    log[d1].sid # log[d2].sid
          /\ \A p \in DOMAIN log :
                log[p].e = "pub" => DOMAIN log[p].obj = {"id", "value", "processed"})
    /\ [][\A sid \in DOMAIN taskStates :
             taskStates'[sid] # taskStates[sid] =>
                /\ Len(stack) > 0
                /\ Last(stack).kind = "handler"
                /\ Last(stack).sid = sid
                /\ \A d \in DOMAIN log :
                      (log[d].e = "task" /\ log[d].sid = sid) => log[d].topic = Last(stack).name]_vars

\* C13 witness: two tasks that keep a count have each been invoked, and the
\* two counts differ.
C13_Witness ==
    \E a1, a2 \in DOMAIN log :
        /\ log[a1].e = "acc"
        /\ log[a2].e = "acc"
        /\ a1 < a2
        /\ log[a1].sid # log[a2].sid
        /\ log[a1].topic # log[a2].topic
        /\ taskStates[log[a1].sid] = log[a1].val
        /\ taskStates[log[a2].sid] = log[a2].val
        /\ log[a1].val # log[a2].val

\* C14: without a context constructor every call of next, whatever its
\* params (omitted, one record, any sequence of records), fails and
\* publishes nothing; name(), startup() and task() themselves do not fail.
C14_TriggerFailsWithoutRule ==
    /\ \A i \in DOMAIN log : log[i].e # "raise"
    /\ workflow.contextConstructor = "unset" =>
          \A t \in DOMAIN log :
              (log[t].e = "trig" /\ Closed(t)) => (TrigThrew(t) /\ PubsOf(t) = {})

\* C14 (amended): without a context constructor every call of next whose
\* params are omitted, one record or a sequence of at least one record fails
\* at once and publishes nothing; with an empty sequence the constructor is
\* never called, and next returns normally, also publishing nothing; name(),
\* startup() and task() themselves do not fail.
C14_TriggerFailsWithoutRuleUnlessEmpty ==
    /\ \A i \in DOMAIN log : log[i].e # "raise"
    /\ workflow.contextConstructor = "unset" =>
          \A t \in DOMAIN log :
              log[t].e = "trig" =>
                  /\ PubsOf(t) = {}
                  /\ t < Len(log) =>
                        /\ log[t + 1].id = t
                        /\ log[t + 1].e =
                              IF Len(PartialsOf(t)) > 0 THEN "trigthrow" ELSE "trigret"

\* C14 witness: name(), startup() and task() have been called on a workflow
\* without a context constructor, and a trigger with three records has
\* failed without publishing.
C14_Witness ==
    /\ workflow.contextConstructor = "unset"
    /\ workflow.name = WfW
    /\ \E d \in DOMAIN log : log[d].e = "task"
    /\ \E t \in DOMAIN log :
          /\ log[t].e = "trig"
          /\ log[t].h = "batch"
          /\ Len(log[t].items) = 3
          /\ TrigThrew(t)
          /\ PubsOf(t) = {}

\* The number of triggers a function's code issues before its first throw
\* statement (all of them when it has none).
TriggersBeforeThrow(h) ==
    LET throws == {k \in DOMAIN Body(h) : Body(h)[k].op = "throw"}
        upto == IF throws = {} THEN Len(Body(h))
                ELSE CHOOSE k \in throws : \A k2 \in throws : k <= k2
    IN Cardinality({k \in 1..upto : Body(h)[k].op = "next"})

\* C15: when the startup hook throws after issuing k of its triggers, those
\* k triggers have returned with everything they started run to its end, no
\* further trigger of the hook is issued, and start() catches the failure:
\* it is logged, start() resolves, and nothing is left unhandled.
C15_HookThrowStopsLaterTriggers ==
    \A o \in DOMAIN log :
        (/\ log[o].e = "start"
         /\ ~RuleMissing(workflow)
         /\ \E k \in DOMAIN Body(log[o].h) : Body(log[o].h)[k].op = "throw") =>
            /\ Cardinality(TrigsOf(o)) <= TriggersBeforeThrow(log[o].h)
            /\ ~Ended(o)
            /\ Failed(o) =>
                  /\ Cardinality(TrigsOf(o)) = TriggersBeforeThrow(log[o].h)
                  /\ \A i \in DOMAIN log :
                        (log[i].e \in Opening /\ i # o /\ o \in Ancestors(i)) =>
                            /\ Closed(i)
                            /\ CloseIdx(i) < FailIdx(o)
                            /\ log[i].e \in {"pub", "trig"} =>
                                  log[CloseIdx(i)].e \in {"pubret", "trigret"}
                  /\ \A p \in DOMAIN log :
                        (log[p].e = "pub" /\ o \in Ancestors(p)) => AllInvoked(p)
                  /\ \A j \in DOMAIN log : log[j].e \notin {"raise", "unhandled"}
                  /\ (\A m \in DOMAIN microtasks : microtasks[m].id # o) =>
                        \E j1, j2 \in DOMAIN log :
                            /\ FailIdx(o) < j1
                            /\ j1 < j2
                            /\ log[j1].e = "error" /\ log[j1].id = o
                            /\ log[j2].e = "started" /\ log[j2].id = o

\* C15 witness: the hook threw after its first trigger, whose task had run a
\* further task to its end, and start() has logged the failure and resolved.
C15_Witness ==
    \E o \in DOMAIN log :
        /\ log[o].e = "start"
        /\ log[o].h = "hookThrow"
        /\ Failed(o)
        /\ \E t \in TrigsOf(o) : \E p \in PubsOf(t) : \E c \in CallsOf(p) :
              \E t2 \in TrigsOf(c) : \E p2 \in PubsOf(t2) : \E c2 \in CallsOf(p2) : Ended(c2)
        /\ \E j \in DOMAIN log : log[j].e = "started" /\ log[j].id = o

\* The first definitions of the task names defined before history index s,
\* and the definition of a name that is in force at s (its latest one).
FirstDefsBefore(s) ==
    {d \in 1..(s - 1) :
        /\ log[d].e = "task"
        /\ \A d0 \in 1..(d - 1) : log[d0].e = "task" => log[d0].topic # log[d].topic}
InForceAt(topic, s) ==
    LET ds == {d \in 1..(s - 1) : log[d].e = "task" /\ log[d].topic = topic}
    IN CHOOSE d \in ds : \A d2 \in ds : d2 <= d

Suspended(c) == \E j \in DOMAIN log : log[j].e = "susp" /\ log[j].id = c
SuspIdx(c) == CHOOSE j \in DOMAIN log : log[j].e = "susp" /\ log[j].id = c
Resumed(c) == \E j \in DOMAIN log : log[j].e = "resume" /\ log[j].id = c
ResumeIdx(c) == CHOOSE j \in DOMAIN log : log[j].e = "resume" /\ log[j].id = c
Settled(c) == \A m \in DOMAIN microtasks : microtasks[m].id # c
LoggedError(c) == \E j \in DOMAIN log : log[j].e = "error" /\ log[j].id = c
Unhandled(c) == \E j \in DOMAIN log : log[j].e = "unhandled" /\ log[j].id = c

\* C17: the wrapper Flow.task builds contains only failures raised before
\* the handler's first suspension: a failure a task handler raises after it
\* suspended is not caught by the engine and escapes as an unhandled failure.
C17_LateTaskFailureEscapes ==
    \A c \in DOMAIN log :
        (/\ log[c].e = "call"
         /\ log[c].sid > 0
         /\ Suspended(c)
         /\ Failed(c)
         /\ SuspIdx(c) < FailIdx(c)
         /\ Settled(c)) =>
            (Unhandled(c) /\ ~LoggedError(c))

\* C17 (amended): the wrapper Flow.task builds awaits the handler inside its
\* try block, so it contains a failure of the handler whether it is raised
\* before or after the handler's first suspension: the failure is logged by
\* the wrapper and never escapes as an unhandled failure.
C17_TaskFailureAlwaysContained ==
    \A c \in DOMAIN log :
        (log[c].e = "call" /\ log[c].sid > 0 /\ Failed(c)) =>
            /\ ~Unhandled(c)
            /\ \A j \in DOMAIN log : log[j].e # "raise"
            /\ Settled(c) =>
                  \E j \in DOMAIN log :
                      log[j].e = "error" /\ log[j].id = c /\ j > FailIdx(c)

\* C17 witness: a task handler suspended, resumed and then failed, and the
\* wrapper has logged the failure.
C17_Witness ==
    \E c \in DOMAIN log :
        /\ log[c].e = "call"
        /\ log[c].sid > 0
        /\ Suspended(c)
        /\ Resumed(c)
        /\ Failed(c)
        /\ ResumeIdx(c) < FailIdx(c)
        /\ LoggedError(c)

\* C18: a callback subscribed directly on the bus that suspends and fails
\* after the publish has returned is not contained: the bus neither catches
\* nor logs the failure, which ends up unhandled, while the publish invoked
\* every subscriber of the topic and returned normally before that.
C18_LateSubscriberFailureNotContained ==
    \A c \in DOMAIN log :
        (/\ log[c].e = "call"
         /\ log[c].sid = 0
         /\ Suspended(c)
         /\ Failed(c)
         /\ SuspIdx(c) < FailIdx(c)) =>
            LET p == log[c].par
            IN /\ Resumed(c)
               /\ PubReturned(p)
               /\ ~PubThrew(p)
               /\ PubEndIdx(p) < ResumeIdx(c)
               /\ ResumeIdx(c) < FailIdx(c)
               /\ AllInvoked(p)
               /\ \A c2 \in CallsOf(p) : c2 < PubEndIdx(p)
               /\ ~LoggedError(c)
               /\ Settled(c) => Unhandled(c)

\* C18 witness: the first of two subscribers suspended, the second was
\* invoked, the publish returned, and the first then failed unhandled.
C18_Witness ==
    \E c \in DOMAIN log :
        /\ log[c].e = "call"
        /\ log[c].n = 1
        /\ Suspended(c)
        /\ Failed(c)
        /\ Unhandled(c)
        /\ \E c2 \in CallsOf(log[c].par) : log[c2].n = 2 /\ c2 < ResumeIdx(c)

\* C19: a publish never waits for a handler that suspends.  The dispatch
\* goes on at once with the next subscriber or returns; by the time the
\* handler resumes, the publish and the trigger that made it have returned
\* and every publish of that trigger, later batch entries included, has been
\* made and has returned.
C19_PublishDoesNotWaitForSuspended ==
    \A c \in DOMAIN log :
        (log[c].e = "call" /\ Suspended(c)) =>
            LET p == log[c].par
                t == log[p].par
                x == SuspIdx(c)
            IN /\ x < Len(log) =>
                     \/ log[x + 1].e = "call" /\ log[x + 1].par = p
                     \/ log[x + 1].e = "pubret" /\ log[x + 1].id = p
               /\ Resumed(c) =>
                     /\ PubReturned(p)
                     /\ PubEndIdx(p) < ResumeIdx(c)
                     /\ t > 0 =>
                           /\ TrigReturned(t)
                           /\ CloseIdx(t) < ResumeIdx(c)
                           /\ Cardinality(PubsOf(t)) = Len(PartialsOf(t))
                           /\ \A q \in PubsOf(t) :
                                 PubReturned(q) /\ PubEndIdx(q) < ResumeIdx(c)

\* C19 witness: a handler suspended, the task of a later trigger of the same
\* hook began and ran to its end, and only then the suspended handler
\* resumed.
C19_Witness ==
    \E c, c2 \in DOMAIN log :
        /\ log[c].e = "call" /\ log[c2].e = "call"
        /\ Suspended(c)
        /\ Resumed(c)
        /\ SuspIdx(c) < c2
        /\ Ended(c2)
        /\ CloseIdx(c2) < ResumeIdx(c)
        /\ log[log[c].par].par < log[log[c2].par].par
        /\ log[log[log[c].par].par].par = log[log[log[c2].par].par].par

\* The invocations of the batch example: P is the task that awaits a timer
\* and then triggers N; an invocation of P belongs to the entry its publish
\* was made for, an invocation of N to the invocation of P that triggered it.
IsP(c) == log[c].e = "call" /\ log[c].h = "slow" /\ log[log[log[c].par].par].h = "batch"
EntryOf(c) == Cardinality({q \in PubsOf(log[log[c].par].par) : q <= log[c].par})
IsNFor(n, c) == log[n].e = "call" /\ log[log[log[n].par].par].par = c

StartOf(i) ==
    LET s == {a \in Ancestors(i) : log[a].e = "start"}
    IN IF s = {} THEN 0 ELSE CHOOSE a \in s : TRUE

\* C21: when the promise start() returned resolves, every task invocation
\* the startup hook caused has completed: none of them is still suspended or
\* yet to begin, the work of handlers after they resume and the tasks they
\* trigger then included.
C21_StartResolvesAfterAllTaskWork ==
    \A j \in DOMAIN log :
        log[j].e = "started" =>
            /\ \A c \in DOMAIN log :
                  (log[c].e = "call" /\ StartOf(c) = log[j].id) =>
                      /\ c < j
                      /\ Ended(c) \/ Failed(c)
                      /\ CloseIdx(c) < j
            /\ \A k \in DOMAIN timers : StartOf(timers[k].id) # log[j].id

\* The invocations of a task that retries: the bound its handler compares
\* its counter with, the counter value the invocation observed after its
\* increment, and the invocation that triggered invocation c.
IsRetryCall(c) == log[c].e = "call" /\ log[c].h \in {"retryTwice", "retryThrice"}
BoundOf(h) == Body(h)[2].bound
Counted(c) == \E j \in DOMAIN log : log[j].e = "inc" /\ log[j].id = c
CounterAt(c) == log[CHOOSE j \in DOMAIN log : log[j].e = "inc" /\ log[j].id = c].val
Caller(c) == log[log[log[c].par].par].par
Failures == {"fail", "error", "raise", "unhandled", "trigthrow", "pubthrow"}

\* C22: a task whose synchronous handler triggers itself while the counter
\* in its state is below n, and its successor otherwise, terminates: from the
\* first trigger the handler runs exactly n times, each run inside the one
\* before it, observing the counter values 1..n in order; the n-th run
\* triggers the successor once, every handler of the successor runs once to
\* its end, and start() completes with no failure raised or logged.
C22_BoundedRetryTerminates ==
    /\ \A c \in DOMAIN log :
          (IsRetryCall(c) /\ Counted(c)) =>
              CounterAt(c) = Num(Cardinality({c0 \in 1..c : log[c0].e = "call"
                                                      /\ log[c0].sid = log[c].sid}))
    /\ \A j \in DOMAIN log :
          log[j].e = "started" =>
              \A r1 \in DOMAIN log :
                  (IsRetryCall(r1) /\ CounterAt(r1) = Num(1)) =>
                      LET n == BoundOf(log[r1].h)
                          runs == {c \in DOMAIN log : /\ log[c].e = "call"
                                                      /\ log[c].sid = log[r1].sid
                                                      /\ r1 \in Ancestors(c)}
                          under == {i \in DOMAIN log : log[i].e \in Opening /\ r1 \in Ancestors(i)}
                      IN /\ Cardinality(runs) = n
                         /\ \A k \in 1..n :
                               /\ CounterAt(Nth(runs, k)) = Num(k)
                               /\ k > 1 => Caller(Nth(runs, k)) = Nth(runs, k - 1)
                               /\ Cardinality(TrigsOf(Nth(runs, k))) = 1
                               /\ \A t \in TrigsOf(Nth(runs, k)) :
                                     log[t].name = IF k < n THEN La ELSE Lb
                         /\ \A t \in TrigsOf(Nth(runs, n)) :
                               /\ Cardinality(PubsOf(t)) = 1
                               /\ \A p \in PubsOf(t) :
                                     AllInvoked(p) /\ \A c \in CallsOf(p) : Ended(c)
                         /\ \A i \in under : Closed(i) /\ CloseIdx(i) < j
                         /\ \A i \in DOMAIN log : log[i].e \notin Failures

\* C22 witness: start() has completed after a handler with the bound 3 ran
\* three times and its successor ran and triggered a third task, which ran.
C22_Witness ==
    \E j, r1 \in DOMAIN log :
        /\ log[j].e = "started"
        /\ log[r1].e = "call"
        /\ log[r1].h = "retryThrice"
        /\ CounterAt(r1) = Num(1)
        /\ \E c \in DOMAIN log :
              /\ log[c].e = "call"
              /\ log[c].h = "acc"
              /\ log[c].topic = QualifiedName(workflow.name, Lc)
              /\ r1 \in Ancestors(c)
              /\ Ended(c)

\* The publishes the driving script made itself, and the payloads the k-th
\* subscription of a topic has been invoked with, oldest first.
ScriptPubs(topic) == {p \in DOMAIN log : log[p].e = "pub" /\ log[p].par = 0 /\ log[p].topic = topic}
HandledBy(topic, k) ==
    LET cs == {c \in DOMAIN log : /\ log[c].e = "call"
                                  /\ log[c].topic = topic
                                  /\ log[c].n = k
                                  /\ log[log[c].par].par = 0}
    IN [i \in 1..Cardinality(cs) |-> log[Nth(cs, i)].obj]

\* C23: publish calls made one after another to a topic are handled by a
\* synchronous subscriber in the order the calls were made, each payload
\* before its publish call returns: the subscriber has run to its end (or to
\* its failure) inside the call, and what it has handled so far is the
\* sequence of payloads published so far, never a reversal of it.
C23_SequentialPublishesHandledInOrder ==
    \A topic \in DOMAIN subscribes :
        LET ps == ScriptPubs(topic) IN
        /\ \A p \in ps :
              (PubReturned(p) /\ Len(RegsBefore(topic, p)) > 0) =>
                  /\ AllInvoked(p)
                  /\ \A c \in CallsOf(p) :
                        /\ log[c].obj = log[p].obj
                        /\ c < PubEndIdx(p)
                        /\ ~IsAsync(log[c].h) =>
                              /\ Ended(c) \/ Failed(c)
                              /\ CloseIdx(c) < PubEndIdx(p)
                  /\ \A q \in ps : q > p => PubEndIdx(p) < q
        /\ \A k \in DOMAIN subscribes[topic] :
              LET first == CHOOSE i \in DOMAIN log :
                              /\ log[i].e = "sub" /\ log[i].topic = topic
                              /\ Cardinality({j \in 1..i : log[j].e = "sub"
                                                 /\ log[j].topic = topic}) = k
                  since == {p \in ps : p > first /\ (PubReturned(p) \/ PubThrew(p))}
                  got == HandledBy(topic, k)
              IN /\ Len(got) >= Cardinality(since)
                 /\ \A i \in 1..Cardinality(since) : got[i] = log[Nth(since, i)].obj

\* C23 witness: two publishes with different payloads were made one after
\* the other to a topic with a synchronous subscriber, and both returned.
C23_Witness ==
    \E p, q \in DOMAIN log :
        /\ p < q
        /\ log[p].e = "pub" /\ log[q].e = "pub"
        /\ log[p].par = 0 /\ log[q].par = 0
        /\ log[p].topic = log[q].topic
        /\ log[p].obj.value # log[q].obj.value
        /\ PubReturned(p) /\ PubReturned(q)
        /\ \E c \in CallsOf(p) : log[c].n = 1 /\ ~IsAsync(log[c].h) /\ Ended(c)
        /\ \E c \in CallsOf(q) : log[c].n = 1 /\ ~IsAsync(log[c].h) /\ Ended(c)

\* C24: topics are independent.  Whatever subscribes and publishes were made
\* on whatever topics, a publish to topic A invokes the callbacks subscribed
\* to A, with A's payload, and nothing else: every invocation is made by a
\* publish to the topic the callback was subscribed to, and a topic nobody
\* published to has had none of its subscribers invoked.
C24_TopicsAreIndependent ==
    /\ \A c \in DOMAIN log :
          log[c].e = "call" =>
              LET p == log[c].par
                  regs == RegsBefore(log[p].topic, p)
              IN /\ log[p].e = "pub"
                 /\ log[c].topic = log[p].topic
                 /\ log[c].obj = log[p].obj
                 /\ log[c].n <= Len(regs)
                 /\ log[c].h = regs[log[c].n].h
    /\ \A p \in DOMAIN log :
          (log[p].e = "pub" /\ PubReturned(p)) =>
              Cardinality(CallsOf(p)) =
                  IF log[p].topic \in ObjectPrototypeKeys THEN 0
                  ELSE Len(RegsBefore(log[p].topic, p))
    /\ \A b \in DOMAIN subscribes :
          (\A p \in DOMAIN log : log[p].e = "pub" => log[p].topic # b) =>
              \A c \in DOMAIN log : log[c].e = "call" => log[c].topic # b

\* C24 witness: two topics have different subscribers, a publish to one of
\* them has returned after invoking its subscriber, and no subscriber of the
\* other topic has been invoked.
C24_Witness ==
    \E p \in DOMAIN log :
        /\ log[p].e = "pub"
        /\ PubReturned(p)
        /\ CallsOf(p) # {}
        /\ \E b \in DOMAIN subscribes :
              /\ b # log[p].topic
              /\ subscribes[b][1].h # subscribes[log[p].topic][1].h
              /\ \A c \in DOMAIN log : log[c].e = "call" => log[c].topic # b

\* What a run must do if dispatch leaves nothing to chance: the handler
\* invocations and the task states computed from the configuration alone, by
\* running the startup hook and, depth first, every task it triggers.  r
\* carries the task states, the objects made, the invocations so far, and
\* whether an exception is on its way out of a call (ok = FALSE); at is the
\* history index of the start() call, which fixes who is subscribed.
RECURSIVE RefBody(_, _, _, _, _, _)
RECURSIVE RefItems(_, _, _, _, _)
RECURSIVE RefSubs(_, _, _, _, _, _)
RECURSIVE RefStarts(_, _)

\* Instructions pc.. of the async function h, invoked with obj and state sid.
\* Whatever is thrown inside it ends it and stays in its promise.
RefBody(at, h, obj, sid, pc, r) ==
    IF pc > Len(Body(h)) THEN r
    ELSE LET ins == Body(h)[pc]
         IN CASE ins.op = "acc" ->
                    RefBody(at, h, obj, sid, pc + 1,
                            [r EXCEPT !.states[sid] = Add(@, obj.value)])
              [] ins.op = "inc" ->
                    RefBody(at, h, obj, sid, pc + 1,
                            [r EXCEPT !.states[sid] = Add(@, Num(1))])
              [] ins.op = "throw" -> r
              [] ins.op \in {"next", "retry"} ->
                    LET self == ins.op = "retry" /\ ~AtLeast(r.states[sid], ins.bound)
                        local == IF self THEN ins.self ELSE ins.name
                        exprs == IF self THEN ins.selfExprs ELSE ins.exprs
                        params == EvalExprs(exprs, obj, r.nobj)
                        r2 == RefItems(at, QualifiedName(workflow.name, local),
                                       NextItems(ins.shape, params), 1,
                                       [r EXCEPT !.nobj = @ + FreshCount(exprs)])
                    IN IF r2.ok THEN RefBody(at, h, obj, sid, pc + 1, r2)
                       ELSE [r2 EXCEPT !.ok = TRUE]

\* Entries i.. of a trigger: construct, publish, next entry.
RefItems(at, topic, items, i, r) ==
    IF i > Len(items) THEN r
    ELSE IF RuleMissing(workflow) THEN [r EXCEPT !.ok = FALSE]
    ELSE LET ctx == Construct(items[i], r.nobj + 1)
         IN RefItems(at, topic, items, i + 1,
                     RefSubs(at, RegsBefore(topic, at), topic, ctx, 1,
                             [r EXCEPT !.nobj = @ + 1]))

\* Subscriptions k.. of a topic, each invoked with the published context.
RefSubs(at, regs, topic, ctx, k, r) ==
    IF k > Len(regs) THEN r
    ELSE LET r1 == [r EXCEPT !.out = Append(@, [topic |-> topic, h |-> regs[k].h,
                                                obj |-> ctx])]
         IN RefSubs(at, regs, topic, ctx, k + 1,
                    RefBody(at, regs[k].h, ctx, regs[k].sid, 1, r1))

\* The start() calls from history index i on, one run after the other.
RefStarts(i, r) ==
    IF i > Len(log) THEN r
    ELSE RefStarts(i + 1, IF log[i].e = "start"
                          THEN RefBody(i, log[i].h, NoObj, 0, 1, r)
                          ELSE r)

\* The runs of the configuration start() was called with.
Expected ==
    RefStarts(1, [states |-> [sid \in DOMAIN taskStates |->
                                log[CHOOSE d \in DOMAIN log :
                                       log[d].e = "task" /\ log[d].sid = sid].val],
                  nobj |-> 0, out |-> <<>>, ok |-> TRUE])

\* The handler invocations the run has made so far, oldest first.
Observed ==
    LET cs == {c \in DOMAIN log : log[c].e = "call"}
    IN [i \in 1..Cardinality(cs) |->
           [topic |-> log[Nth(cs, i)].topic, h |-> log[Nth(cs, i)].h,
            obj |-> log[Nth(cs, i)].obj]]

\* C25: with synchronous handlers the invocations of a run are a function of
\* its configuration and triggers, so two runs of one configuration cannot
\* differ: at every moment the sequence of (task, context) invocations made
\* so far is an initial part of the one sequence the configuration
\* determines, and when every start() called has completed it is that whole
\* sequence and the task states are the ones it determines.
C25_DispatchIsDeterministic ==
    starts > 0 =>
        LET x == Expected
            o == Observed
        IN /\ Len(o) <= Len(x.out)
           /\ \A i \in DOMAIN o : o[i] = x.out[i]
           /\ (Cardinality({j \in DOMAIN log : log[j].e = "started"}) = starts) =>
                 /\ o = x.out
                 /\ \A sid \in DOMAIN taskStates : taskStates[sid] = x.states[sid]
                 /\ nobj = x.nobj

\* C25 witness: start() has completed a run in which a batch of two entries
\* was triggered and at least four invocations were made.
C25_Witness ==
    /\ \E j \in DOMAIN log : log[j].e = "started"
    /\ \E t \in DOMAIN log : log[t].e = "trig" /\ Len(log[t].items) >= 2
    /\ Len(Observed) >= 4
    /\ Observed = Expected.out

\* C26: the pending-message buffer never holds more than one message.  It
\* holds one exactly between a publish call's enqueue and the drain the same
\* call makes next, and that one is the message the call enqueued; it is
\* empty while a subscriber callback runs and when a publish has returned or
\* raised, also for a topic without subscribers and after a subscriber
\* failed.  So which end of the buffer is drained never decides an order.
C26_BufferHoldsAtMostOneMessage ==
    LET draining == Len(stack) > 0 /\ Last(stack).kind = "pub" /\ Last(stack).pc = 1
    IN /\ Len(queue) <= 1
       /\ Len(queue) = 1 <=> draining
       /\ draining => queue[1] = [topic |-> Last(stack).name, data |-> Last(stack).obj]
       /\ Running => queue = <<>>
       /\ Len(stack) = 0 => queue = <<>>
       /\ (Len(log) > 0 /\ Last(log).e \in {"pubret", "pubthrow", "error", "fail"}) =>
             queue = <<>>

\* C26 witness: a callback invoked by a publish that another callback made
\* is running, after an earlier subscriber of the outer publish failed.
C26_Witness ==
    /\ Running
    /\ Cardinality({d \in DOMAIN stack : stack[d].kind = "pub"}) >= 2
    /\ \E c \in DOMAIN log : log[c].e = "call" /\ Failed(c)
    /\ queue = <<>>

\* How many invocations of its own task invocation c runs under, itself
\* included: 1 for a first attempt, k + 1 for the k-th retry in a row.
ChainPos(c) ==
    Cardinality({a \in Ancestors(c) : log[a].e = "call" /\ log[a].sid = log[c].sid})
\* The first attempt of the chain invocation c belongs to.
ChainRoot(c) ==
    CHOOSE a \in Ancestors(c) :
        /\ log[a].e = "call" /\ log[a].sid = log[c].sid
        /\ \A b \in Ancestors(c) : (log[b].e = "call" /\ log[b].sid = log[c].sid) => a <= b

\* C27: synchronous re-triggering nests.  While the k-th retry in a row of a
\* task runs there are k + 1 publish calls to the task's topic that have not
\* returned, the first attempt's and one more for each retry, each with its
\* handler's invocation still on the call stack beneath; a publish of the
\* chain returns only after every invocation made under it has finished.
C27_SynchronousRetryNests ==
    /\ (Running /\ Last(stack).h \in {"retryTwice", "retryThrice"}) =>
          LET f == Last(stack)
              m == ChainPos(f.id)
              open == {d \in DOMAIN stack : stack[d].kind = "pub" /\ stack[d].name = f.name}
              held == {d \in DOMAIN stack : stack[d].kind = "handler" /\ stack[d].sid = f.sid}
          IN /\ Cardinality(open) = m
             /\ Cardinality(held) = m
             /\ \A d \in open : ~PubReturned(stack[d].id)
             /\ Len(stack) >= 3 * m + 1
             /\ (f.pc = 2 /\ CounterAt(ChainRoot(f.id)) = Num(1)) =>
                   taskStates[f.sid] = Num(m)
    /\ \A c \in DOMAIN log :
          (IsRetryCall(c) /\ PubReturned(log[c].par)) =>
              \A i \in DOMAIN log :
                  (log[i].e \in Opening /\ c \in Ancestors(i)) =>
                      Closed(i) /\ CloseIdx(i) < PubEndIdx(log[c].par)

\* C27 witness: the second retry in a row of a task is running, with three
\* publish calls to the task's topic not yet returned.
C27_Witness ==
    /\ Running
    /\ Last(stack).h = "retryThrice"
    /\ ChainPos(Last(stack).id) = 3
    /\ Cardinality({d \in DOMAIN stack : stack[d].kind = "pub"
                                         /\ stack[d].name = Last(stack).name}) = 3

\* What invocation c read from its task's state and what it wrote there.
HasRead(c) == \E j \in DOMAIN log : log[j].e = "read" /\ log[j].id = c
ReadIdx(c) == CHOOSE j \in DOMAIN log : log[j].e = "read" /\ log[j].id = c
Wrote(c) == \E j \in DOMAIN log : log[j].e = "write" /\ log[j].id = c
WriteIdx(c) == CHOOSE j \in DOMAIN log : log[j].e = "write" /\ log[j].id = c
WritesOn(sid) == {j \in DOMAIN log : log[j].e = "write" /\ log[j].sid = sid}

\* C28: invocations of one task share the task's one state record with no
\* mutual exclusion.  An invocation that reads the counter, suspends and
\* then writes the value it read plus one writes it whatever was written in
\* between; so when a second invocation begins and reads before the first
\* has resumed and written, both write the same value and the counter ends
\* one higher, not two higher, than both found it: one update is lost.
C28_SharedStateUpdateCanBeLost ==
    /\ \A j \in DOMAIN log :
          log[j].e = "write" => log[j].val = Add(log[ReadIdx(log[j].id)].val, Num(1))
    /\ \A sid \in DOMAIN taskStates :
          WritesOn(sid) # {} =>
              taskStates[sid] = log[CHOOSE j \in WritesOn(sid) :
                                       \A j2 \in WritesOn(sid) : j2 <= j].val
    /\ \A c1, c2 \in DOMAIN log :
          (/\ c1 < c2
           /\ log[c1].e = "call" /\ log[c2].e = "call"
           /\ log[c1].h = "countSlowly" /\ log[c2].h = "countSlowly"
           /\ log[c1].sid = log[c2].sid
           /\ HasRead(c1) /\ HasRead(c2)
           /\ Resumed(c1) => ReadIdx(c2) < ResumeIdx(c1)
           /\ \A j \in WritesOn(log[c1].sid) : j < ReadIdx(c1) \/ j > ReadIdx(c2)) =>
              /\ log[ReadIdx(c1)].val = log[ReadIdx(c2)].val
              /\ (Wrote(c1) /\ Wrote(c2)) =>
                    /\ log[WriteIdx(c1)].val = Add(log[ReadIdx(c1)].val, Num(1))
                    /\ log[WriteIdx(c2)].val = log[WriteIdx(c1)].val
                    /\ (\A j \in WritesOn(log[c1].sid) :
                            j <= WriteIdx(c1) \/ j <= WriteIdx(c2)) =>
                          taskStates[log[c1].sid] = Add(log[ReadIdx(c1)].val, Num(1))

\* C28 witness: two invocations of a task both read the counter at 0 before
\* either resumed, both have written, and the counter stands at 1.
C28_Witness ==
    \E c1, c2 \in DOMAIN log :
        /\ c1 < c2
        /\ log[c1].e = "call" /\ log[c2].e = "call"
        /\ log[c1].h = "countSlowly" /\ log[c2].h = "countSlowly"
        /\ log[c1].sid = log[c2].sid
        /\ Wrote(c1) /\ Wrote(c2)
        /\ ReadIdx(c2) < ResumeIdx(c1)
        /\ log[ReadIdx(c1)].val = Num(0)
        /\ Cardinality(WritesOn(log[c1].sid)) = 2
        /\ taskStates[log[c1].sid] = Num(1)

\* C29: subscriber lists are append-only.  No step removes or reorders a
\* subscription: every topic's list stays an initial part of its list in the
\* next state, hence of every later one.  A step that changes the lists is
\* one subscribe: it appends one callback to one topic's list, leaves the
\* list of every other topic as it was and invokes nothing.  No step of a
\* publish, from the call to its return, changes any list.
C29_SubscriberListsAppendOnly ==
    [][/\ \A t \in DOMAIN subscribes :
             /\ t \in DOMAIN subscribes'
             /\ Len(subscribes'[t]) >= Len(subscribes[t])
             /\ SubSeq(subscribes'[t], 1, Len(subscribes[t])) = subscribes[t]
       /\ subscribes' # subscribes =>
             /\ \E a \in DOMAIN subscribes' :
                   /\ Len(subscribes'[a]) =
                         (IF a \in DOMAIN subscribes THEN Len(subscribes[a]) ELSE 0) + 1
                   /\ \A b \in DOMAIN subscribes' \ {a} :
                         b \in DOMAIN subscribes /\ subscribes'[b] = subscribes[b]
             /\ stack' = stack
             /\ queue' = queue
             /\ microtasks' = microtasks
             /\ timers' = timers
             /\ log' = Append(log, Last(log'))
             /\ Last(log').e = "sub"
       /\ (Len(stack) > 0 \/ Len(stack') > 0) => subscribes' = subscribes
       /\ (\E i \in (Len(log) + 1)..Len(log') :
              log'[i].e \in {"pub", "pubret", "pubthrow", "call"}) => subscribes' = subscribes
      ]_vars

\* C29 witness: a topic has two subscriptions, and between the first and
\* the second a publish to the topic invoked the first and returned.
C29_Witness ==
    \E a \in DOMAIN subscribes :
        /\ Len(subscribes[a]) = 2
        /\ \E i, p, j \in DOMAIN log :
              /\ i < p /\ p < j
              /\ log[i].e = "sub" /\ log[i].topic = a
              /\ log[p].e = "pub" /\ log[p].topic = a
              /\ PubReturned(p) /\ PubEndIdx(p) < j
              /\ CallsOf(p) # {}
              /\ log[j].e = "sub" /\ log[j].topic = a

\* The configuration in effect just before history index i: what the last
\* call of each setter before i set, or what the engine is constructed with.
Setters == {"setName", "setContext", "setStartup"}
LastSet(kind, i) ==
    LET before == {j \in 1..(i - 1) : log[j].e = kind}
    IN IF before = {} THEN 0 ELSE CHOOSE j \in before : \A j2 \in before : j2 <= j
NameAt(i) == IF LastSet("setName", i) = 0 THEN WfUnknown ELSE log[LastSet("setName", i)].wf
HookAt(i) == IF LastSet("setStartup", i) = 0 THEN "hookNone" ELSE log[LastSet("setStartup", i)].h
RuleAt(i) == IF LastSet("setContext", i) = 0 THEN "unset" ELSE "assign"

MaxBusCalls == 4
FairCallbacks == {"cbRec", "cbThrow", "cbAsync", "cbAsyncFail"}

FairSub ==
    /\ Len(stack) = 0
    /\ calls < MaxBusCalls
    /\ \E topic \in {La, Lb}, h \in FairCallbacks \cup {"cbPub"} :
          /\ h = "cbPub" => topic = La
          /\ subscribes' = Sub(subscribes, topic, Callback("direct", h, 0, <<>>))
          /\ log' = Append(log, Ev("sub", Len(log) + 1, 0, topic, h, NoObj, 0, UndefV, 0))
    /\ calls' = calls + 1
    /\ UNCHANGED <<queue, workflow, taskStates, stack, microtasks, timers, nobj, starts>>

FairPub ==
    /\ Len(stack) = 0
    /\ calls < MaxBusCalls
    /\ \E topic \in {La, Lb} :
          LET data == Obj(nobj + 1, Num(1), UndefV)
              c == PubCall(stack, log, topic, data, 0)
          IN /\ queue' = Unshift(queue, topic, data)
             /\ stack' = c.stack
             /\ log' = c.log
    /\ nobj' = nobj + 1
    /\ calls' = calls + 1
    /\ UNCHANGED <<subscribes, workflow, taskStates, microtasks, timers, starts>>

\* The code on the call stack runs on by itself.
RunStack ==
    \/ StepUpdate
    \/ StepForEach
    \/ StepReturn
    \/ StepThrow
    \/ StepAwait
    \/ StepCallPub

NextFair ==
    \/ FairSub
    \/ FairPub
    \/ StepUpdate
    \/ StepForEach
    \/ StepReturn
    \/ StepThrow
    \/ StepAwait
    \/ StepCallPub
    \/ RunMicrotask
    \/ FireTimer

\* The host keeps running the call stack, then the microtasks, then the
\* timers that are due; the script itself may stop at any point.
SpecFair ==
    /\ Init
    /\ [][NextFair]_vars
    /\ WF_vars(RunStack)
    /\ WF_vars(RunMicrotask)
    /\ WF_vars(FireTimer)

\* A subscriber invocation that suspended has run the rest of its body: it
\* resumed and then returned or threw.
RanToCompletion(c) == Resumed(c) /\ Closed(c) /\ ResumeIdx(c) < CloseIdx(c)
Waiting(c) == \E k \in DOMAIN timers : timers[k].id = c
SuspendedCalls == {c \in DOMAIN log : log[c].e = "call" /\ Suspended(c)}

\* C31: a subscriber that suspends during a publish is neither cancelled nor
\* dropped.  The publish returns before the subscriber finishes (while it
\* is suspended and not yet resumed it is still waiting on its timer), and
\* under a fair host scheduler its remaining work is eventually run to
\* completion: again and again every invocation that ever suspended has
\* resumed and run to its end, and an invocation, once finished, stays so.
C31_SuspendedSubscriberEventuallyCompletes ==
    /\ [](\A c \in SuspendedCalls :
            /\ PubReturned(log[c].par) => SuspIdx(c) < PubEndIdx(log[c].par)
            /\ ~Resumed(c) => Waiting(c) /\ ~Closed(c)
            /\ Closed(c) =>
                  /\ PubReturned(log[c].par)
                  /\ PubEndIdx(log[c].par) < CloseIdx(c)
                  /\ RanToCompletion(c))
    /\ []<>(\A c \in SuspendedCalls : RanToCompletion(c))

\* C31 witness: a subscriber suspended, the publish returned, a second
\* subscriber of the same message ran, and afterwards the suspended one
\* resumed and returned.
C31_Witness ==
    \E c \in SuspendedCalls :
        /\ log[c].h = "cbAsync"
        /\ PubReturned(log[c].par)
        /\ Resumed(c)
        /\ PubEndIdx(log[c].par) < ResumeIdx(c)
        /\ Ended(c)
        /\ \E c2 \in CallsOf(log[c].par) : c2 > c

\* The definitions made before any start() that a later definition of the
\* same qualified name, also made before any start(), has overwritten.
StartsBefore(i) == {o \in 1..(i - 1) : log[o].e = "start"}
Overwritten ==
    {d \in DOMAIN log :
        /\ log[d].e = "task"
        /\ \E d2 \in DOMAIN log :
              /\ d2 > d
              /\ log[d2].e = "task"
              /\ log[d2].topic = log[d].topic
              /\ StartsBefore(d2) = {}}
LatestDef(topic) ==
    CHOOSE d \in DOMAIN log :
        /\ log[d].e = "task"
        /\ log[d].topic = topic
        /\ \A d2 \in DOMAIN log :
              (log[d2].e = "task" /\ log[d2].topic = topic) => d2 <= d
FirstDef(topic) ==
    CHOOSE d \in DOMAIN log :
        /\ log[d].e = "task"
        /\ log[d].topic = topic
        /\ \A d2 \in DOMAIN log :
              (log[d2].e = "task" /\ log[d2].topic = topic) => d2 >= d

\* C32: a task defined twice under one qualified name before start().  The
\* registry holds one entry for the name, the second definition's; every
\* start() subscribes one handler for the name, the second one with the
\* second definition's state record, at the position the name was first
\* registered at; every invocation under the name is of the second handler
\* with the second state record; and the first definition's state record
\* is handed to no invocation and stays as it was created.
C32_RedefinitionBeforeStartOverwrites ==
    \A d1 \in Overwritten :
        LET topic == log[d1].topic
            d2 == LatestDef(topic)
        IN /\ Cardinality({i \in DOMAIN workflow.tasks : workflow.tasks[i].name = topic}) = 1
           /\ \A i \in DOMAIN workflow.tasks :
                 workflow.tasks[i].name = topic =>
                     /\ workflow.tasks[i].h = log[d2].h
                     /\ workflow.tasks[i].sid = log[d2].sid
                     /\ i = Cardinality({d \in FirstDefsBefore(Len(log) + 1) :
                                            d <= FirstDef(topic)})
           /\ \A o \in DOMAIN log :
                 log[o].e = "start" =>
                     LET firsts == FirstDefsBefore(o)
                         n == Cardinality(firsts)
                         k == Cardinality({d \in firsts : d <= FirstDef(topic)})
                         subs == {j \in (o - n)..(o - 1) : log[j].topic = topic}
                     IN /\ subs = {o - n - 1 + k}
                        /\ log[o - n - 1 + k].e = "sub"
                        /\ log[o - n - 1 + k].h = log[d2].h
                        /\ log[o - n - 1 + k].sid = log[d2].sid
           /\ topic \in DOMAIN subscribes =>
                 /\ Len(subscribes[topic]) = starts
                 /\ \A a \in DOMAIN subscribes[topic] :
                       subscribes[topic][a] = Callback("task", log[d2].h, log[d2].sid, topic)
           /\ \A c \in DOMAIN log :
                 (log[c].e = "call" /\ log[c].topic = topic) =>
                     log[c].h = log[d2].h /\ log[c].sid = log[d2].sid
           /\ \A c \in DOMAIN log : log[c].e = "call" => log[c].sid # log[d1].sid
           /\ taskStates[log[d1].sid] = log[d1].val

\* C32 witness: a name was defined, another name after it, then the first
\* name again with another handler; start() subscribed the second handler
\* ahead of the other task's, and a trigger of the name ran the second
\* handler to its end.
C32_Witness ==
    \E d1 \in Overwritten : \E d3 \in DOMAIN log : \E o \in DOMAIN log :
        /\ log[d3].e = "task"
        /\ log[d3].topic # log[d1].topic
        /\ d1 < d3
        /\ d3 < LatestDef(log[d1].topic)
        /\ log[LatestDef(log[d1].topic)].h # log[d1].h
        /\ log[o].e = "start"
        /\ log[o - 2].e = "sub"
        /\ log[o - 2].topic = log[d1].topic
        /\ log[o - 1].topic = log[d3].topic
        /\ \E c \in DOMAIN log :
              /\ log[c].e = "call"
              /\ log[c].topic = log[d1].topic
              /\ log[c].sid = log[LatestDef(log[d1].topic)].sid
              /\ Ended(c)

\* Invocation c has left the call stack (it returned, threw or suspended) at
\* history index LeftIdx(c).
Left(c) == \E j \in DOMAIN log : log[j].id = c /\ log[j].e \in {"end", "fail", "susp"}
LeftIdx(c) ==
    CHOOSE j \in DOMAIN log :
        /\ log[j].id = c
        /\ log[j].e \in {"end", "fail", "susp"}
        /\ \A j2 \in DOMAIN log :
              (log[j2].id = c /\ log[j2].e \in {"end", "fail", "susp"}) => j <= j2
\* The publishes made under invocation c while it was on the call stack.
NestedPubs(c) ==
    {q \in DOMAIN log :
        /\ log[q].e = "pub"
        /\ q > c
        /\ c \in Ancestors(q)
        /\ Left(c) => q < LeftIdx(c)}

\* C33: a subscriber of message m publishes a further message while it
\* handles m.  The nested publish invokes every subscriber of its topic, each
\* of them leaves the call stack again (it returned, threw or suspended), and
\* the nested publish returns, all before the next subscriber of m is
\* invoked; the same holds of every publish made further down.
C33_NestedPublishDispatchedBeforeNextSubscriber ==
    \A c \in DOMAIN log :
        log[c].e = "call" =>
            \A q \in NestedPubs(c) :
                /\ Left(c) => Closed(q) /\ CloseIdx(q) < LeftIdx(c)
                /\ \A c3 \in CallsOf(q) :
                      Closed(q) => c3 < CloseIdx(q) /\ Left(c3) /\ LeftIdx(c3) < CloseIdx(q)
                /\ PubReturned(q) => AllInvoked(q)
                /\ \A c2 \in CallsOf(log[c].par) :
                      c2 > c =>
                          /\ PubReturned(q)
                          /\ PubEndIdx(q) < c2
                          /\ \A c3 \in CallsOf(q) : c3 < c2

\* C33 witness: the first subscriber of a message published a nested
\* message, the nested message's subscriber ran, and after it the second
\* subscriber of the first message was invoked.
C33_Witness ==
    \E c, c2 \in DOMAIN log :
        /\ log[c].e = "call"
        /\ log[c2].e = "call"
        /\ log[c2].par = log[c].par
        /\ log[c].n = 1
        /\ log[c2].n = 2
        /\ \E q \in NestedPubs(c) : \E c3 \in CallsOf(q) : Left(c3) /\ LeftIdx(c3) < c2

\* ------------------------------- triggers and publishes made by the script
\* Flow.next and Queue.pub are public: the script may call them itself, at
\* any time, before a start() as well as after one.  The script makes
\* MaxEarlyCalls such calls and MaxEarlyTasks task definitions.
MaxEarlyCalls == 2
MaxEarlyTasks == 2
EarlyHooks == {"hookTwo"}
EarlyTaskDefs ==
    { [local |-> La, h |-> "acc", init |-> TRUE],
      [local |-> Lb, h |-> "acc", init |-> TRUE] }

EarlyStartup ==
    /\ Len(stack) = 0
    /\ starts = 0
    /\ workflow.startup = "hookNone"
    /\ \E h \in EarlyHooks : workflow' = SetStartup(workflow, h)
    /\ UNCHANGED <<subscribes, queue, taskStates, stack, microtasks, timers, log, nobj, calls, starts>>

EarlyTask ==
    /\ Len(stack) = 0
    /\ Len(taskStates) < MaxEarlyTasks
    /\ \E d \in EarlyTaskDefs :
          LET r == DefineTask(workflow, taskStates, d.local, d.h, d.init)
          IN /\ workflow' = r.workflow
             /\ taskStates' = r.taskStates
             /\ log' = Append(log,
                   [Ev("task", Len(log) + 1, 0, r.result, d.h, NoObj, Len(r.taskStates),
                       Last(r.taskStates), 0)
                    EXCEPT !.name = d.local, !.wf = workflow.name])
    /\ UNCHANGED <<subscribes, queue, stack, microtasks, timers, nobj, calls, starts>>

\* flow.next(name, {value: 1}) called by the script.
ScriptNext ==
    /\ Len(stack) = 0
    /\ calls < MaxEarlyCalls
    /\ \E local \in {La, Lb} :
          LET id == Len(log) + 1
              params == EvalExprs(<<"lit1">>, NoObj, nobj)
              full == QualifiedName(workflow.name, local)
          IN /\ nobj' = nobj + FreshCount(<<"lit1">>)
             /\ stack' = <<Frame("next", "", 1, NoObj, 0, full, "",
                                 NextItems("single", params), id, 1, 0)>>
             /\ log' = Append(log,
                   [Ev("trig", id, 0, full, "single", NoObj, 0, UndefV, Len(params))
                    EXCEPT !.items = params, !.name = local, !.wf = workflow.name])
    /\ calls' = calls + 1
    /\ UNCHANGED <<subscribes, queue, workflow, taskStates, microtasks, timers, starts>>

\* flow.pub(topic, data) called by the script with a task's qualified name.
ScriptPub ==
    /\ Len(stack) = 0
    /\ calls < MaxEarlyCalls
    /\ \E local \in {La, Lb} :
          LET data == Obj(nobj + 1, Num(2), UndefV)
              c == PubCall(stack, log, QualifiedName(workflow.name, local), data, 0)
          IN /\ queue' = Unshift(queue, QualifiedName(workflow.name, local), data)
             /\ stack' = c.stack
             /\ log' = c.log
    /\ nobj' = nobj + 1
    /\ calls' = calls + 1
    /\ UNCHANGED <<subscribes, workflow, taskStates, microtasks, timers, starts>>

NextEarly ==
    \/ EnvContext
    \/ EarlyStartup
    \/ EarlyTask
    \/ LifeStart
    \/ ScriptNext
    \/ ScriptPub
    \/ StepUpdate
    \/ StepForEach
    \/ StepNext
    \/ StepReturn
    \/ StepAcc
    \/ StepCallNext
    \/ RunMicrotask

SpecEarly == Init /\ [][NextEarly]_vars

\* A publish made to a topic nobody had subscribed to by then.
Unsubscribed ==
    {p \in DOMAIN log : log[p].e = "pub" /\ Len(RegsBefore(log[p].topic, p)) = 0}

\* C34: a message is never kept for a future subscriber.  A publish to a
\* task's qualified name made while nobody is subscribed to it (before the
\* start() that subscribes the task, for a task defined only after start(),
\* or for a name no task has), by the script or by a trigger, returns at
\* once and without a failure, and so does its trigger; it invokes no
\* handler, now or after a subscriber has been added; and the buffer does
\* not hold the message afterwards.  Every invocation is made by a publish
\* issued after the handler was subscribed, for that publish's own message.
C34_MessagesNotRetainedForLaterSubscribers ==
    /\ \A p \in Unsubscribed :
          /\ CallsOf(p) = {}
          /\ ~PubThrew(p)
          /\ p < Len(log) => log[p + 1].e = "pubret" /\ log[p + 1].id = p
          /\ log[p].par > 0 => ~TrigThrew(log[p].par)
          /\ PubReturned(p) =>
                \A m \in DOMAIN queue : queue[m].data.id # log[p].obj.id
          /\ \A c \in DOMAIN log : log[c].e = "call" => log[c].obj.id # log[p].obj.id
    /\ \A c \in DOMAIN log :
          log[c].e = "call" =>
              /\ log[log[c].par].e = "pub"
              /\ log[c].topic = log[log[c].par].topic
              /\ log[c].obj = log[log[c].par].obj
              /\ log[c].n <= Len(RegsBefore(log[c].topic, log[c].par))
    /\ Len(stack) = 0 => queue = <<>>

\* C34 witness: the script triggered a task before start() had subscribed
\* it and the trigger returned; then start() subscribed the task, a later
\* trigger of the same name ran the handler to its end, and the first
\* message has still reached nobody.
C34_Witness ==
    \E p \in Unsubscribed : \E s, p2 \in DOMAIN log :
        /\ log[p].par > 0
        /\ log[log[p].par].par = 0
        /\ TrigReturned(log[p].par)
        /\ p < s
        /\ log[s].e = "sub"
        /\ log[s].topic = log[p].topic
        /\ s < p2
        /\ log[p2].e = "pub"
        /\ log[p2].topic = log[p].topic
        /\ \E c \in CallsOf(p2) : Ended(c)
        /\ CallsOf(p) = {}

\* The start() calls made before history index p while a task was registered
\* under `topic`.
StartsWith(topic, p) ==
    {o \in 1..(p - 1) :
        /\ log[o].e = "start"
        /\ \E d \in 1..(o - 1) : log[d].e = "task" /\ log[d].topic = topic}

\* C35: start() is not idempotent.  Every call runs the startup hook again
\* and subscribes every task of the registry again, so a publish of a
\* trigger invokes one handler for every start() made so far while the
\* task's name was registered: the handler the registry held at that call,
\* with its state record.  For a task defined once, after k calls to start()
\* that is k invocations of the one handler, all on the one state record
\* (an accumulating handler finds the sum its previous invocation left).
C35_StartSubscribesAgainEveryCall ==
    /\ Cardinality({o \in DOMAIN log : log[o].e = "start"}) = starts
    /\ \A o \in DOMAIN log :
          (log[o].e = "start" /\ Ended(o)) => Cardinality(TrigsOf(o)) = NextCount(log[o].h)
    /\ \A p \in DOMAIN log :
          (log[p].e = "pub" /\ PubReturned(p)) =>
              LET ss == StartsWith(log[p].topic, p)
                  cs == CallsOf(p)
              IN /\ Cardinality(cs) = Cardinality(ss)
                 /\ \A k \in 1..Cardinality(ss) :
                       LET c == Nth(cs, k)
                           d == InForceAt(log[p].topic, Nth(ss, k))
                       IN /\ log[c].n = k
                          /\ log[c].h = log[d].h
                          /\ log[c].sid = log[d].sid
                 /\ Cardinality(DefsOf(log[log[p].par].name)) = 1 =>
                       /\ \A c1, c2 \in cs :
                             log[c1].sid = log[c2].sid /\ log[c1].h = log[c2].h
                       /\ \A c1, c2 \in cs :
                             (log[c1].h = "acc" /\ log[c2].n = log[c1].n + 1) =>
                                 log[c2].val = Add(log[c1].val, log[c1].obj.value)

\* C35 witness: a task was defined once, start() was called twice, and one
\* publish of the second hook's trigger ran the task's handler twice, the
\* second invocation finding the sum the first one left.
C35_Witness ==
    \E p \in DOMAIN log :
        /\ log[p].e = "pub"
        /\ PubReturned(p)
        /\ Cardinality(StartsWith(log[p].topic, p)) = 2
        /\ Cardinality(DefsOf(log[log[p].par].name)) = 1
        /\ \E c1, c2 \in CallsOf(p) :
              /\ log[c1].n = 1
              /\ log[c2].n = 2
              /\ log[c1].h = "acc"
              /\ Ended(c1)
              /\ Ended(c2)
              /\ log[c1].sid = log[c2].sid
              /\ log[c2].val = Add(log[c1].val, log[c1].obj.value)

\* The definitions of the local name trigger t is for that were made under
\* another workflow name than the one current at t.
DefsUnderOtherName(t) ==
    {d \in 1..(t - 1) :
        log[d].e = "task" /\ log[d].name = log[t].name /\ log[d].wf # log[t].wf}
DefsUnderSameName(t) ==
    {d \in 1..(t - 1) :
        log[d].e = "task" /\ log[d].name = log[t].name /\ log[d].wf = log[t].wf}

\* C36: a task's qualified name is built when the task is defined, from the
\* workflow name current then, and the registry keeps it whatever the name
\* is set to later; a trigger builds its topic from the workflow name
\* current at the trigger.  So a definition made under another name than
\* the one current at a trigger of its local name is not reached by that
\* trigger: its handler is not invoked with its state record, and if the
\* local name has no definition under the current name the publish invokes
\* nobody at all.  Nothing fails: the publish returns, and so does the
\* trigger.
C36_NameBoundAtDefinitionAndAtTrigger ==
    /\ \A d \in DOMAIN log :
          log[d].e = "task" =>
              /\ log[d].wf = NameAt(d)
              /\ log[d].topic = Qualified(NameAt(d), log[d].name)
              /\ \E i \in DOMAIN workflow.tasks : workflow.tasks[i].name = log[d].topic
    /\ \A t \in DOMAIN log :
          log[t].e = "trig" =>
              /\ log[t].wf = NameAt(t)
              /\ log[t].topic = Qualified(NameAt(t), log[t].name)
              /\ \A p \in PubsOf(t) :
                    /\ log[p].topic = log[t].topic
                    /\ ~PubThrew(p)
                    /\ p < Len(log) /\ DefsUnderSameName(t) = {} =>
                          log[p + 1].e = "pubret" /\ log[p + 1].id = p
                    /\ \A d \in DefsUnderOtherName(t) :
                          /\ log[d].topic # log[p].topic
                          /\ \A c \in CallsOf(p) : log[c].sid # log[d].sid
                    /\ DefsUnderSameName(t) = {} => CallsOf(p) = {}
              /\ PubsOf(t) # {} => ~TrigThrew(t)

\* C36 witness: a task was defined, the workflow name was set to another
\* one afterwards, and start() ran a hook whose trigger of the task's local
\* name published, reached nobody and returned; start() has completed.
C36_Witness ==
    \E t \in DOMAIN log :
        /\ log[t].e = "trig"
        /\ DefsUnderOtherName(t) # {}
        /\ DefsUnderSameName(t) = {}
        /\ \E d \in DefsUnderOtherName(t) :
              \E n \in (d + 1)..(t - 1) : log[n].e = "setName" /\ log[n].wf # log[d].wf
        /\ TrigReturned(t)
        /\ \E p \in PubsOf(t) : PubReturned(p) /\ CallsOf(p) = {}
        /\ \E j \in DOMAIN log : log[j].e = "started" /\ log[j].id = log[t].par

\* --------------------------------- subscribing while a dispatch is under way
\* A script whose callbacks call queue.sub themselves: cbSub subscribes a
\* further callback to Lb; subscribed to Lb it does so while a message for Lb
\* is being dispatched.
SubCallbacks == {"cbRec", "cbSub"}

ResubSub ==
    /\ Len(stack) = 0
    /\ calls < MaxBusCalls
    /\ \E topic \in {La, Lb}, h \in SubCallbacks \cup {"cbPub"} :
          /\ h = "cbPub" => topic = La
          /\ subscribes' = Sub(subscribes, topic, Callback("direct", h, 0, <<>>))
          /\ log' = Append(log, Ev("sub", Len(log) + 1, 0, topic, h, NoObj, 0, UndefV, 0))
    /\ calls' = calls + 1
    /\ UNCHANGED <<queue, workflow, taskStates, stack, microtasks, timers, nobj, starts>>

NextResub ==
    \/ ResubSub
    \/ FairPub
    \/ StepUpdate
    \/ StepForEach
    \/ StepReturn
    \/ StepCallPub
    \/ StepCallSub

SpecResub == Init /\ [][NextResub]_vars

\* The place of subscription s in its topic's list, and the publishes to a
\* topic that are being dispatched at history index s.
PlaceOf(s) ==
    Cardinality({i \in 1..s : log[i].e = "sub" /\ log[i].topic = log[s].topic})
OpenAt(topic, s) ==
    {p \in 1..(s - 1) :
        /\ log[p].e = "pub"
        /\ log[p].topic = topic
        /\ ~(Closed(p) /\ CloseIdx(p) < s)}

\* C37: a callback subscribed to a topic by an invocation, while one or more
\* messages for that topic are being dispatched, is not invoked for any of
\* those messages: their dispatch ends with the subscribers that were there
\* when it began.  Every publish to the topic made afterwards invokes the
\* new callback, once every subscriber registered before it has been invoked
\* and has left the call stack.
C37_SubscriberAddedDuringDispatch ==
    \A s \in DOMAIN log :
        (log[s].e = "sub" /\ log[s].par > 0) =>
            /\ \A p \in OpenAt(log[s].topic, s) :
                  /\ \A c \in CallsOf(p) : log[c].n < PlaceOf(s)
                  /\ PubReturned(p) =>
                        Cardinality(CallsOf(p)) = Len(RegsBefore(log[p].topic, p))
            /\ \A p \in DOMAIN log :
                  (/\ log[p].e = "pub"
                   /\ p > s
                   /\ log[p].topic = log[s].topic
                   /\ PubReturned(p)) =>
                      \E c \in CallsOf(p) :
                          /\ log[c].n = PlaceOf(s)
                          /\ log[c].h = log[s].h
                          /\ log[c].obj = log[p].obj
                          /\ \A k \in 1..(PlaceOf(s) - 1) :
                                \E c0 \in CallsOf(p) :
                                    /\ log[c0].n = k
                                    /\ c0 < c
                                    /\ Left(c0)
                                    /\ LeftIdx(c0) < c

\* C37 witness: during the dispatch of a message a subscriber of its topic
\* subscribed a further callback to the topic, and a second subscriber of the
\* message ran after that; the publish returned without having invoked the
\* new callback, and the next publish to the topic invoked it last.
C37_Witness ==
    \E s, p, p2 \in DOMAIN log :
        /\ log[s].e = "sub"
        /\ log[s].par > 0
        /\ p \in OpenAt(log[s].topic, s)
        /\ log[log[s].par].par = p
        /\ PubReturned(p)
        /\ \E c \in CallsOf(p) : c > s
        /\ \A c \in CallsOf(p) : log[c].n < PlaceOf(s)
        /\ log[p2].e = "pub"
        /\ p2 > PubEndIdx(p)
        /\ log[p2].topic = log[s].topic
        /\ \E c \in CallsOf(p2) : log[c].n = PlaceOf(s) /\ Ended(c)

\* ------------------------------------------- startup hooks that fail, fairly
\* Hooks that raise before their first await, after it, or through a trigger
\* made while no context rule is set, beside hooks that succeed.
FailHooks == {"hookOne", "hookThrow", "hookSlow", "hookSlowThrow"}
FailTaskDefs ==
    { [local |-> La, h |-> "acc", init |-> TRUE],
      [local |-> Lb, h |-> "acc", init |-> TRUE] }

FailStartup ==
    /\ Len(stack) = 0
    /\ starts = 0
    /\ \E h \in FailHooks : workflow' = SetStartup(workflow, h)
    /\ UNCHANGED <<subscribes, queue, taskStates, stack, microtasks, timers, log, nobj, calls, starts>>

FailTask ==
    /\ Len(stack) = 0
    /\ starts = 0
    /\ Len(taskStates) < MaxTasks
    /\ \E d \in FailTaskDefs :
          LET r == DefineTask(workflow, taskStates, d.local, d.h, d.init)
          IN /\ workflow' = r.workflow
             /\ taskStates' = r.taskStates
             /\ log' = Append(log,
                   [Ev("task", Len(log) + 1, 0, r.result, d.h, NoObj, Len(r.taskStates),
                       Last(r.taskStates), 0)
                    EXCEPT !.name = d.local, !.wf = workflow.name])
    /\ UNCHANGED <<subscribes, queue, stack, microtasks, timers, nobj, calls, starts>>

\* The code on the call stack of a workflow runs on by itself.
RunFlowStack ==
    \/ StepUpdate
    \/ StepForEach
    \/ StepNext
    \/ StepReturn
    \/ StepAcc
    \/ StepThrow
    \/ StepAwait
    \/ StepCallNext

NextFail ==
    \/ EnvContext
    \/ FailStartup
    \/ FailTask
    \/ EnvStart
    \/ StepUpdate
    \/ StepForEach
    \/ StepNext
    \/ StepReturn
    \/ StepAcc
    \/ StepThrow
    \/ StepAwait
    \/ StepCallNext
    \/ RunMicrotask
    \/ FireTimer

SpecFail ==
    /\ Init
    /\ [][NextFail]_vars
    /\ WF_vars(RunFlowStack)
    /\ WF_vars(RunMicrotask)
    /\ WF_vars(FireTimer)

\* start() call o has resolved: the rest of start() ran and found nothing
\* more to do.
Started(o) == \E j \in DOMAIN log : log[j].e = "started" /\ log[j].id = o
StartedIdx(o) == CHOOSE j \in DOMAIN log : log[j].e = "started" /\ log[j].id = o
ErrorIdx(o) == CHOOSE j \in DOMAIN log : log[j].e = "error" /\ log[j].id = o
StartCalls == {o \in DOMAIN log : log[o].e = "start"}

\* C38: the promise of start() always resolves normally.  Nothing is raised
\* to the caller of start() and no rejection is left unhandled; a hook that
\* failed, before its first await or after it, or through a trigger that
\* found no context rule, has its failure logged by start(), which then
\* resolves; a hook that returned makes start() resolve with nothing
\* logged; and under a fair host every start() does resolve.  While no
\* context rule is set nothing is published and no task handler is invoked.
C38_StartAlwaysResolves ==
    /\ [](/\ \A j \in DOMAIN log : log[j].e \notin {"raise", "unhandled"}
          /\ \A o \in StartCalls :
                /\ Cardinality({j \in DOMAIN log : log[j].e = "started" /\ log[j].id = o}) <= 1
                /\ Started(o) => Closed(o) /\ CloseIdx(o) < StartedIdx(o)
                /\ (Failed(o) /\ Settled(o)) =>
                      /\ Started(o)
                      /\ LoggedError(o)
                      /\ FailIdx(o) < ErrorIdx(o)
                      /\ ErrorIdx(o) < StartedIdx(o)
                /\ (Ended(o) /\ Settled(o)) => Started(o) /\ ~LoggedError(o)
                /\ \A t \in TrigsOf(o) :
                      TrigThrew(t) =>
                          /\ RuleMissing(workflow)
                          /\ PubsOf(t) = {}
                          /\ Failed(o)
                          /\ CloseIdx(t) < FailIdx(o)
          /\ RuleMissing(workflow) =>
                \A j \in DOMAIN log : log[j].e \notin {"call", "pub"})
    /\ []<>(\A o \in StartCalls : Started(o))

\* C38 witness: a hook triggered a task, awaited a timer and raised a
\* failure after it resumed; start() logged the failure and resolved.
C38_Witness ==
    \E o \in StartCalls :
        /\ Suspended(o)
        /\ Resumed(o)
        /\ Failed(o)
        /\ ResumeIdx(o) < FailIdx(o)
        /\ LoggedError(o)
        /\ Started(o)
        /\ \E t \in TrigsOf(o) : \E p \in PubsOf(t) : \E c \in CallsOf(p) : Ended(c)

\* --------------------------------------- a context class that can refuse
\* Flow.context given a class whose constructor throws on some records; the
\* hook and a task trigger batches that hold such a record.
RuleKinds == {"assign", "validate"}
BatchHooks == {"hookBatch", "hookOne"}
BatchTaskDefs ==
    { [local |-> La, h |-> "acc", init |-> TRUE],
      [local |-> La, h |-> "fan", init |-> FALSE],
      [local |-> Lb, h |-> "acc", init |-> TRUE],
      [local |-> Lc, h |-> "acc", init |-> TRUE] }

\* this.workflow.contextConstructor = (params) => new constructor(params)
SetContextClass(wf, kind) == [wf EXCEPT !.contextConstructor = kind]

BatchContext ==
    /\ Len(stack) = 0
    /\ starts = 0
    /\ \E kind \in RuleKinds : workflow' = SetContextClass(workflow, kind)
    /\ UNCHANGED <<subscribes, queue, taskStates, stack, microtasks, timers, log, nobj, calls, starts>>

BatchStartup ==
    /\ Len(stack) = 0
    /\ starts = 0
    /\ \E h \in BatchHooks : workflow' = SetStartup(workflow, h)
    /\ UNCHANGED <<subscribes, queue, taskStates, stack, microtasks, timers, log, nobj, calls, starts>>

BatchTask ==
    /\ Len(stack) = 0
    /\ starts = 0
    /\ Len(taskStates) < MaxTasks
    /\ \E d \in BatchTaskDefs :
          LET r == DefineTask(workflow, taskStates, d.local, d.h, d.init)
          IN /\ workflow' = r.workflow
             /\ taskStates' = r.taskStates
             /\ log' = Append(log,
                   [Ev("task", Len(log) + 1, 0, r.result, d.h, NoObj, Len(r.taskStates),
                       Last(r.taskStates), 0)
                    EXCEPT !.name = d.local, !.wf = workflow.name])
    /\ UNCHANGED <<subscribes, queue, stack, microtasks, timers, nobj, calls, starts>>

NextBatch ==
    \/ BatchContext
    \/ BatchStartup
    \/ BatchTask
    \/ EnvStart
    \/ StepUpdate
    \/ StepForEach
    \/ StepNext
    \/ StepReturn
    \/ StepAcc
    \/ StepCallNext
    \/ RunMicrotask

SpecBatch == Init /\ [][NextBatch]_vars

\* The triggers made with an array of records.
BatchTrigs == {t \in DOMAIN log : log[t].e = "trig" /\ log[t].h = "batch"}
\* The context ids of the publishes made before history index i.
IdsBefore(i) == {log[q].obj.id : q \in {q0 \in 1..(i - 1) : log[q0].e = "pub"}}
\* Publish p ran every subscriber of its topic, and each of them has left
\* the call stack, before p returned.
FullyDispatched(p) ==
    /\ PubReturned(p)
    /\ AllInvoked(p)
    /\ \A c \in CallsOf(p) : Left(c) /\ LeftIdx(c) < PubEndIdx(p)

\* C39: a batch trigger constructs and publishes its entries one at a time.
\* The publish of entry i+1 is made, with a context constructed for it then
\* (it is newer than every context published so far, those of the tasks run
\* for entry i included), only after the publish of entry i has returned.
\* If the rule raises on entry k the trigger fails there: entries 1..k-1 are
\* the ones published, each fully dispatched before the failure, no later
\* entry is ever constructed or published, and the failure reaches the
\* trigger's caller at once.
C39_BatchConstructsEntryByEntry ==
    \A t \in BatchTrigs :
        LET items == log[t].items
            pubs == PubsOf(t)
            n == Cardinality(pubs)
        IN /\ n <= Len(items)
           /\ \A k \in 1..n :
                 LET p == Nth(pubs, k)
                 IN /\ log[p].obj.value = items[k].value
                    /\ ~RuleRejects(workflow, items[k])
                    /\ \A id \in IdsBefore(p) : id < log[p].obj.id
                    /\ k > 1 =>
                          /\ PubReturned(Nth(pubs, k - 1))
                          /\ PubEndIdx(Nth(pubs, k - 1)) < p
           /\ TrigReturned(t) => n = Len(items)
           /\ TrigThrew(t) =>
                 /\ n < Len(items)
                 /\ RuleMissing(workflow) \/ RuleRejects(workflow, items[n + 1])
                 /\ \A p \in pubs : FullyDispatched(p) /\ PubEndIdx(p) < CloseIdx(t)
                 /\ Failed(log[t].par)
                 /\ FailIdx(log[t].par) = CloseIdx(t) + 1
                 /\ RuleMissing(workflow) => n = 0

\* C39 witness: the rule raised on the second of three entries.  The first
\* entry had been published and its task had run to the end; the trigger
\* failed, its caller failed with it, and the third entry was not published.
C39_Witness ==
    \E t \in BatchTrigs :
        /\ Len(log[t].items) = 3
        /\ TrigThrew(t)
        /\ Cardinality(PubsOf(t)) = 1
        /\ RuleRejects(workflow, log[t].items[2])
        /\ \E p \in PubsOf(t) : \E c \in CallsOf(p) : Ended(c) /\ CloseIdx(c) < CloseIdx(t)
        /\ Failed(log[t].par)
        /\ Started(log[t].par)

====
